# OrbitBuild in TLA+

OrbitBuild (`src/`) turns machines with a local buildkitd into remote builders for
`docker buildx`. A *station* creates an iroh document and hands out a *beacon* (a
ticket for it); each *satellite* imports the document, registers itself under
`satellite/<node id>` and exposes its buildkitd over QUIC behind an access gate; a
*mission control* imports the document, picks a satellite for each requested
platform, opens a Unix socket per platform, registers it with buildx and copies
bytes between the socket and the satellite.

This directory models that program, checks the models with TLC and proves the main
safety properties with TLAPS. `PROJECT.json` maps every definition to the source
lines it translates.

## Inventory

| Component | State | Operations | Talks to |
|---|---|---|---|
| satellite (`satellite.rs`) | `allowed_peers` behind an RwLock, main / event / heartbeat tasks, own entry | join, populate, register, heartbeat, event handling, gate, shutdown | document, router, build_proxy |
| build_proxy (`build_proxy.rs`) | per connection: stream, buildkitd socket, two copies | `accept` | gate, buildkitd |
| bridge (`bridge.rs`) | socket file, listener, accept task, session tasks, manager map | `run`, `proxy_session`, `add_bridge`, `shutdown` | docker client, satellite, file system |
| mission_control (`mission_control.rs`) | replica, event stream, selection, manager | join, wait_for_sync, discover, select, bridge, buildx, cleanup | document, bridge, docker |
| docker (`docker.rs`) | the named builder (external) | inspect, create or append, rm | docker CLI |
| station (`station.rs`) | in-memory document | init, share | document |
| router (`router.rs`) | endpoint, in-memory stores | `spawn` | iroh |
| keys (`keys.rs`) | key file | load or generate | file system |
| beacon (`beacon.rs`) | none | encode, decode | - |
| fleet, status, link (`fleet.rs`, `status.rs`, `link.rs`) | child process, deadlines | one-shot commands | document, sockets, mission control |
| GitHub action (`action/src`) | saved pid, inputs | start, wait, cleanup | mission control, docker |

The components meet in four places: the replicated document (satellites write,
mission control and fleet read, with no ordering between nodes), the gate (event
task and populate scan write, router reads without waiting), the QUIC connection
(one proxy at each end), and the machine of a mission control (socket files and
one builder, shared by every process there).

What makes them correct, and what is hard about it:

* *satellite*: no peer is lost between the populate scan and the event stream; the
  gate admits only peers it was shown and forgets none; a stopped satellite is
  offline. Hard: three tasks and a lock that the gate only tries; heartbeat against
  shutdown; crash and restart under a new author.
* *tunnel* (bridge session + build_proxy): everything has arrived when both ends report
  success; a half session remains only while its own application is silent. Hard:
  half-close, either end returning first, connection loss.
* *selection*: the freshest idle satellite of the preferred class; nothing that
  could be served is skipped; no panic. Hard: two filters, ties, odd platform strings.
* *constellation*: what the wait for a sync promises to discovery; which run of a
  satellite is chosen. Hard: entries per author, metadata ahead of content, crashes, a
  wait that goes by the next sync with any node, successful or not.
* *bridges*: each platform has its own reachable socket and is in the builder,
  whatever killed runs left; bridges that want one path harm only each other. Hard:
  unlink and bind are two steps, several processes.
* *event stream*: a command starts to read the document at the right event, and what
  arrived meanwhile is reported in order. Hard: two events in either order, errors and
  the end of the stream between them, no deadline, a stream handed from one task to
  another.
* *launchers* (link, status, action): they say linked only of the bridges of their own
  child, decide by their deadline, and leave nothing running. Hard: polling against a
  machine that changes, a child that blocks or dies, teardown at any point.
* *keys*: a node keeps its identity. Hard: check, truncate and write are separate
  system calls, crashes in between, several commands on one data directory.
* *station*: a mission control that has synced with it before its wait is over finds
  all it knew. Hard: its document is gone when it stops, its next run has another one
  under the same node id, and nothing tells a mission control whose sync it waited for.

The full list of hazards, each with its line and the properties that cover it, is
in `PROJECT.json`.

## Modules

| Module | Models | State and actions |
|---|---|---|
| `Satellite` | `run_satellite_join` over several runs, with its two tasks and the AccessLimit closure | `main` is the position in the function; `lock`/`allowed` the RwLock and its set; `snapshot` what the populate query has yet to yield; `queue` the subscription; `inHand` the insert the event task is doing; `heartbeat` its task; `entry` what its author wrote last; `gate` the last answer per peer. One action per await-to-await step. |
| `Selection` | `parse_platforms`, `select_satellite_for_platform` and the bridge loop | one step per iteration of an iterator; `best` is the running maximum of `max_by_key`. A platform is its list of `/`-components. |
| `Tunnel` | `proxy_session` and `BuildProxy::accept` on one connection | per side the task's position, chunks `written`, `sent`, `delivered`, and the end of each copy. Both sides run the same two copies under `try_join`. |
| `Constellation` | satellites, station and a joining mission control around the document | `log` of each author (one per satellite run), `known` versions per node (satellites, station, mission control), `seed` whether the station still has the document, `content` of what mission control has, `mc` its position. `Pass` is any replication between two nodes, `SyncFinished(n)` the event of a sync with any node, `PendingContentReady` the emission of that event (what comes in before `Discover` reads is `late`), `StreamEnds` the other way out of the wait. |
| `Bridges` | `add_bridge`, `Bridge::run` up to `accept`, buildx registration, shutdown, for all mission controls of a machine | `task` per bridge, `files` and `open` (which listener a file leads to), `builder`. |
| `Registration` | what a satellite promises about its own entry | `phase`, `run` and `entry` as the document sees them. `Satellite` (one process in detail) and `Constellation` (each of several satellites) instantiate it as `Entry`; `KeepsItsWord` and `AllKeepTheirWord` are the refinements. |
| `BytePipe` | what a session promises its two applications | per side the `end`, what was `put` and `got`. `Tunnel` instantiates it as `Abs`: `PipeEnd` and `PipeShut` map its tasks and sockets, `IsBytePipe` is the refinement. |
| `EventStream` | `wait_for_sync` of mission control and of fleet, and mission control's subscription task | events are numbered, and what a task keeps of one is its number: `taken` by the wait, `buffered` for the task, its `stream`, and what it `reported`. One action per iteration of a loop, `read_entry_blob` a step of its own. |
| `Launch` | link, and a job of the GitHub action with the status command and the post step, on top of `Bridges` | per child its `launcher`'s position, `probe` the socket it looks at next, `late` the deadline, `boot` a child that runs but has bridged nothing yet. One action per probe and per step of a teardown; the child's actions are those of `Bridges`. |
| `KeyStore` | `load_or_generate_secret_key` in all commands of a data directory | `pc` and `key` per process, `file` the key file (absent, short or a key). One action per system call. `ran` and `raced` are history. |
| `SatelliteProofs`, `SelectionProofs`, `TunnelProofs`, `ConstellationProofs`, `BridgesProofs`, `LaunchProofs`, `EventStreamProofs`, `KeyStoreProofs` | the theorems | |
| `MC...` | constants for TLC | |

External code is modelled from how `src/` uses it: iroh-docs (events in order per
subscription, last entry per author and key, metadata before content, `SyncFinished`
also for a failed sync), the QUIC connection (ordered until lost; dropping the last
handle closes it), docker and buildkitd (may write, shut down or close at any time),
the docker CLI (refuses to create an existing builder and to append to a missing one)
and the file system (bind fails on an existing path, unlink takes any file).

## Runs

Bounds are named in each `.cfg`. Deadlock checking is off where the system may stop:
a process that has ended, a session that has returned, an exhausted bound.

| Run | Shows | Bounds, and why they are enough |
|---|---|---|
| `satellite` | `NoLostPeer`, `GateSound`, `OnceIn`, `EntryAdmitted`, and the refinement `KeepsItsWord`, over every interleaving of populate, events, gate, shutdown and crash | one other satellite, one member without a key, one stranger; 2 queued events and one in hand let an up, a down and an entry of the same peer be under way together; 2 runs give a restart |
| `satellite_offline` | violation of "on shutdown: set status to offline" | one run suffices |
| `selection` | `NoPanic`, `BestSatellite`, `ServedWhenPossible` on all inputs | 2 items of 5 kinds (valid, empty, the two invalid shapes); 3 entries give a tie and a better one in every order |
| `tunnel` | what the two tasks of one session report of its data (`CompletedMeansComplete`, `OkForwardedAll`), when they end (`NoHalfSession`, `HungUpEnds`), and that they implement `BytePipe` | 2 chunks each way: one delivered, one in flight |
| `tunnel_hangup` | violation of "copy_bidirectional" | 1 chunk |
| `constellation` | `DiscoveryComplete` for every wait in which the station synced, `RestartSupersedes`, `AllKeepTheirWord` | one satellite, 2 runs of 2 writes, 2 clock values: crash, restart, re-registration, tie; the restarted satellite has a partial replica, and a sync with it may end the wait; the station may stop at any moment. With 2 writes a heartbeat never follows the offline entry here; `satellite` and the proof of `AllKeepTheirWord` cover that |
| `constellation_ghost` | violation of "on shutdown: set status to offline (or delete entry)" | 2 runs |
| `bridges` | `SocketsServe`, `BuilderComplete`, `BridgesOpen` across kills and restarts, beside another process | one process with two platforms and two runs, one with a third platform and one run: a kill or a graceful stop, a restart, and a neighbour that starts or ends at any point of it |
| `launch` | `NoOrphan`, `LinkedServes`, `JobCleansUp`, `Decides` for link and for a job, and `CollisionsContained` for two mission controls that race for a path | a child with two platforms, of which it may find a satellite for one only; no leftover sockets or those of both platforms; one mission control started by hand that wants one of the paths; one start each, as a launcher starts from the same place again |
| `event_stream` | `WaitExact`, `ReplayExact`, `WaitEnds`, `SeenReported` for both commands | 5 events of 5 kinds: a pending event before the sync, an update on either side of it, the pending event that ends the wait, and one event more |
| `event_stream_monitor` | violation of "mission control uses this subscription to detect when new satellites appear" | 3 events: sync, pending, update |
| `key_store` | `OneIdentity`, `IdentityOnDisk`, `Permanent` across races, failed writes and crashes | three commands, so that a third can come while two race; 4 keys let one process lose a key and generate another |

### What the violations say

* `OfflineAtExit`: the heartbeat is aborted after the offline entry is written, so it
  can overwrite it with idle.
* `HangUpEndsSession`: `io::copy` does not shut the other socket down, so a hang-up
  does not reach buildkitd. Each `status` and `link` probe opens such a session.
* `NoGhostAfterStop`: each run writes under a new author, so the next run's offline
  entry leaves the crashed run's idle entry in place.
* `UpdatesMonitored`: `wait_for_sync` returns the events it buffered and drops the
  subscription, so the task that monitors the document ends once it has replayed them.

Four more things follow from the models without a run of their own.

* A member that writes no key (mission control) is refused by the gate until gossip has
  reported it as a direct neighbour.
* The socket path keeps only what follows the last `/` of a platform, and duplicates are
  accepted: of two bridges with one path at most one is reachable in the end, and none
  if a bind fails, as its cleanup removes the file of the winner. `SocketsServe` is
  therefore proved for plans without such pairs (`OwnPaths`, `Undisputed`) and checked
  on them, and `CollisionsContained` says that the harm stays with the pair.
* `wait_for_sync` counts every `SyncFinished`: that of a satellite with a partial
  replica, or of a sync that failed, ends the wait as well, and so does the end of the
  event stream. Discovery may then miss satellites that the station knows, and mission
  control says that there are none or takes a worse one, although the code waits "to
  ensure we have satellite data" (`mission_control.rs:60`). `DiscoveryComplete` is about
  the waits in which the station did sync (`sync`), and no property promises more.
* A satellite's proxy task whose client has hung up waits for buildkitd alone. If mission
  control is then killed the task stays, with its connection to buildkitd, until that
  speaks or closes: `io::copy` does not look at a stream it has nothing to write to.
  `NoHalfSession` says that this is the only half session that stays (`Stranded`).

## Fairness

Weak fairness only, and only for what the tokio runtime or the transport owes:
tasks that can move are polled (`MainStep`, `EventTask`, `Heartbeat`; `MainTask`,
`AcceptTasks`; the copies and returns of a session), and a transport delivers, or
reports a loss to a task that reads from it or writes to it. The lock of `allowed_peers` is fair in tokio, and only two tasks
write, each releasing it before it asks again, so weak fairness of the two tasks is
enough. Nothing is assumed of signals, crashes, restarts, incoming events, clients or
buildkitd, except that an application reads what it is given and closes its socket when
it reads end of file (`AppSeesEnd`). In `EventStream` the wait, what follows it and the subscription task
are polled; no event is ever owed, so `WaitEnds` is conditional on the event that ends
the wait or the end of the stream. In `Launch` the launchers' polling and teardown go
on and their clock passes the deadline; nothing is assumed of the child, which may
block on a pipe that link never reads, so `Decides` holds whatever it does. `BytePipe`
promises only that an end collapses when the other has ended and its own application
will write no more. `Constellation` and
`KeyStore` are checked for safety only: nothing in the code waits there.

## Proofs

TLAPS checks the following for every value of the constants. Where a run names the
property TLC checks it too; the inductive invariants were found by looking for the
facts that a step needs.

* `SatelliteProofs`: `TypeCorrect`, `NoLostPeerHolds`, `GateSoundHolds`,
  `OnceInHolds`, `KeepsItsWordHolds`, `LockHeldToInsertHolds`. The invariant adds to
  `NoLostPeer` that everything allowed, in the snapshot, queued or in hand was shown
  by the document or the swarm to this run, that an accepted peer is allowed, and that
  the event task has a peer in hand only between taking an event and inserting it, and
  exists only from its spawn to the end of the run. `OnceIn` then follows from one
  step: the gate's two answers differ only if the lock is taken. `KeepsItsWordHolds`
  shows that every step of the process is one of `Registration` or leaves it alone; it
  needs that the heartbeat exists only between the registration and the end of the run
  and that a run that has not registered has no entry. `LockHeldToInsertHolds`: the
  lock is held exactly by the task that is inserting.
* `SelectionProofs`: `TypeCorrect`, `NoPanicHolds`, `BestSatelliteHolds`,
  `ServedHolds`, `OutcomeHolds`. The loop invariant says that `best` is the best of
  the entries scanned so far, that the emulated pass starts only without a native
  candidate, and that each platform before `k` has a bridge or no candidate.
  `OutcomeHolds` adds that parsing kept all valid items, and with the uniqueness of
  the best candidate says exactly what comes out of an argument and a document.
* `TunnelProofs`: `TypeCorrect`, `OkForwardedAllHolds`, `CompletedHolds`. The invariant
  (beside `Pipe`: no more is delivered than sent, or sent than written) ties the end of
  a copy to what was written and the end of the other side's stream to the end of its
  copy: both tasks can only return Ok when all four copies ended with everything.
  `Refinement` shows with the same invariant that every step of `Tunnel` is a step of
  `BytePipe` or leaves it alone: the two sides return at different moments, and what the
  second one may still report depends on how the first one ended. `HungUpMoves` and
  `HungUpRunsDown` are the safety half of `HungUpEnds`: once both applications have
  closed, the guard of some step of a proxy holds until both sides have ended, and every
  step but the one loss makes the work left smaller. What the prover cannot do is the
  last inference, from weak fairness to the end.
* `BridgesProofs`: `TypeCorrect`, `OwnSocketsServe`, `SocketsServeHolds`,
  `BuilderCompleteHolds`. `OwnSocketsServe` is about one process and a set of paths that
  it wants once each (`OwnPaths`) and that no other process can want (`Undisputed`),
  whatever it and the others race for elsewhere: no bind on them fails, none of the
  tasks ends before an abort and none of the files is removed by another, so a listening
  task keeps its file until shutdown. `SocketsServeHolds` is the same for all paths of
  all processes at once. For `BuilderComplete`: while no other process was ever
  started, what inspect said still holds at the create that follows, and each bridge
  the loop has passed is an endpoint.
* `ConstellationProofs`: `TypeCorrect`, `RestartSupersedesHolds`,
  `DiscoveryCompleteHolds`, `AllKeepTheirWordHolds`, `SelectIsSelection`. One
  invariant per property. For `RestartSupersedes`: no entry is from the future, what a
  later run of a satellite writes is not older than what an earlier one wrote, what
  discovery read was written, and the target is the most recent of its class. For
  `DiscoveryComplete`: what the station knew at the start is with mission control once
  the station has synced, whoever synced before or will, and is settled (downloaded, or
  failed to) when `PendingContentReady` is emitted, unless a newer one came in since. For `AllKeepTheirWord`: a step of one satellite
  leaves the log of every author of the others alone. `SelectIsSelection` joins two
  modules: for any document that lists the discovered authors in any order, the
  candidates of `Selection` are `Eligible`, and its best one is a target that `Select`
  may choose.
* `LaunchProofs`: `LaunchTypeCorrect`, `NoOrphanHolds`, `CollisionsContainedHolds`,
  `JobCleansUpHolds`, `LinkedServesHolds`, `MachineSteps`, `LinksImplementBridges`. The
  invariant adds to that of `BridgesProofs` that a child which boots has no tasks yet,
  and that there is no child at all once its launcher has terminated it; for
  `JobCleansUp` also that a process that was never started is down, and that in the
  unlinking phase each socket before `probe` is gone for good, as nobody is left to bind
  it. For `LinkedServes`, under `OwnPaths` for each child: while a launcher is alone
  every listener is its child's, so a socket it found alive belongs to a listening task,
  and that one keeps its file (the invariant of `SocketsServe`); a child that boots has
  no listener, so nothing was found alive before it. `MachineSteps` refines the
  launchers away: what they and their children do to the machine are steps of `Bridges`
  and the two cleanups of a job, so that with link commands only the composed system
  implements `Bridges` (`LinksImplementBridges`) and its theorems carry over. With jobs,
  `CollisionsContainedHolds` carries the argument of `OwnSocketsServe` over to the
  `Private` paths of a mission control, those that it wants once, no other one can want
  and no other launcher's job cleans up: its bridges there are open from the moment
  their tasks have settled, as its own job unlinks only when it is gone.
* `EventStreamProofs`: `TypeCorrect`, `WaitExactHolds`, `ReplayExactHolds`. The
  invariant: `synced` says whether a SyncFinished was read, the buffer holds every
  event read but the errors in increasing order, and what the task reported and what
  it has yet to read are increasing, follow one another and hold every update.
* `KeyStoreProofs`: `TypeCorrect`, `OneIdentityHolds`, `IdentityOnDiskHolds`,
  `PermanentHolds`. The invariant says that, without a race, at most one process is
  between check and write, the file is in the state that this one left it in, and
  every identity that a node has run with is the one in the file.

Assumptions: the named ASSUMEs of the modules (sets of peers are disjoint, inputs have
their types, bounds are naturals), which TLC evaluates in the runs. In addition
`OwnPaths` and `Undisputed` for the process and the paths of `OwnSocketsServe`, for all
paths of every process in `SocketsServeHolds`, and `OwnPaths` for all paths of the children
in `LinkedServesHolds`: they speak of the constants only. The plans of MCBridges satisfy
both, those of MCLaunch `OwnPaths` (its two mission controls both want amd64), and the code
enforces neither, as said above.

Only model-checked: every liveness property (`EntryAdmitted`, `NoHalfSession`,
`HungUpEnds`, `BridgesOpen`, `WaitEnds`, `SeenReported`, `Decides`, and the fairness
that is part of `IsBytePipe`), since the prover does not reason about fairness and
ENABLED.

## Not modelled, and why

`beacon`, `cli` and `main` are encoding and dispatch without state; the installation
step of the action downloads a file. Of `fleet` the layout of its table is left out,
of `keys` the choice of the default directory. Of `station` the backup replica of
`station join` is left out: its address is in no beacon, so that a node that joins
never starts from it. buildkitd supervision is described in
the documents and not in the code. Platform strings are lists of components; entry
addresses, logging and error texts are left out. In `Bridges` a docker command takes
effect at once and either works for the whole run of the model or is missing;
discovery errors (`?` in `run_mission_control` before the bridges exist) end the
process before it touches the machine and are the same as not starting (`ChildBails`
in `Launch`). The link and action models have one launcher per child, and a job's
launcher does not crash itself: the runner that hosts it is then gone with it. What a
failing chmod, mkdir or write of the key file leaves is the same as a crash there. A
document engine that restarts in the middle of a subscription is not modelled, and in
`Satellite` neither the scan nor the events of the document yield an error: the code skips
one (`satellite.rs:129`, `satellite.rs:206`) and changes nothing, so that the peer it hid is
admitted with its next event. In `Constellation` the clock never goes back and is the same
everywhere, a satellite offers the same platforms in all its runs, and mission control's
replica is forgotten once discovery has read it.

## Plan

What is left, in this order; everything before it is done.

1. `station join`, a backup replica that peers which already know it can sync from.
2. `Bridges` composed with `Constellation`: a bridge whose satellite goes away while
   another one could serve.
