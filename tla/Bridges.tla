------------------------------ MODULE Bridges ------------------------------
(***************************************************************************)
(* What a mission control process does to its machine once it has chosen a *)
(* satellite for each platform: BridgeManager::add_bridge and the accept   *)
(* tasks of Bridge::run, which unlink and bind one socket file each, the   *)
(* registration with docker buildx, and the shutdown sequence, against     *)
(* other mission controls, kills and restarts.                             *)
(*                                                                         *)
(* The document subscription task is left out: it only logs.               *)
(*                                                                         *)
(* The tasks run in parallel with the main task.  The file system and the  *)
(* docker CLI are shared by all processes; they are modelled from how the  *)
(* code uses them.  A socket file leads to the listener of the task that   *)
(* bound it, if that still listens and the file is still that one.         *)
(***************************************************************************)
EXTENDS Naturals, Sequences

CONSTANTS
  Controls,         \* mission control processes of the machine
  Platforms,        \* platform strings
  Arch,             \* what follows the last '/' of each, names its socket
  Plans,            \* per process, the platform lists that found a satellite
  MaxRuns,          \* bound: starts of each process
  Leftovers,        \* socket files that earlier, killed runs may have left
  DockerWorks       \* whether docker may be there, may be missing, or both

ASSUME PlanSets ==
  /\ Arch \in [Platforms -> STRING]
  /\ Plans \in [Controls -> SUBSET Seq(Platforms)]
  /\ MaxRuns \in [Controls -> Nat]
  /\ Leftovers \subseteq SUBSET {Arch[p] : p \in Platforms}
  /\ DockerWorks \subseteq BOOLEAN

VARIABLES
  pc,               \* where run_mission_control of each process stands
  runs,             \* starts so far
  plan,             \* the platforms it bridges, in the order of its argument
  task,             \* the accept task of each bridge added so far
  todo,             \* platforms left in its loop over manager.platforms()
  seen,             \* what docker buildx inspect said: "none", "yes", "no"
  files,            \* the socket paths that exist
  open,             \* the tasks <<c, i>> that the file at their path leads to
  docker,           \* docker is installed and works
  builder           \* endpoints of the builder, {} if there is no builder

mains   == <<pc, runs, plan, todo, seen>>
sockets == <<files, open>>
vars    == <<mains, task, sockets, docker, builder>>

Paths == {Arch[p] : p \in Platforms}

(* socket_path_for_platform, of the i-th bridge of c. *)
Path(c, i) == Arch[plan[c][i]]

(* The keys of the manager's map. *)
Managed(c) == {plan[c][i] : i \in 1 .. Len(task[c])}

(* cleanup_socket removes whatever file is at the path. *)
CleanupSocket(path) ==
  /\ files' = files \ {path}
  /\ open' = {t \in open : Path(t[1], t[2]) # path}

SetTask(c, i, state) == task' = [task EXCEPT ![c][i] = state]

-----------------------------------------------------------------------------
Init ==
  /\ pc = [c \in Controls |-> "down"]
  /\ runs = [c \in Controls |-> 0]
  /\ plan = [c \in Controls |-> <<>>]
  /\ task = [c \in Controls |-> <<>>]
  /\ todo = [c \in Controls |-> {}]
  /\ seen = [c \in Controls |-> "none"]
  /\ files \in Leftovers
  /\ open = {}
  /\ docker \in DockerWorks
  /\ builder = {}

(* Discovery and selection are over (module Selection). *)
Start(c) ==
  /\ pc[c] = "down"
  /\ runs[c] < MaxRuns[c]
  /\ \E l \in Plans[c] : plan' = [plan EXCEPT ![c] = l]
  /\ pc' = [pc EXCEPT ![c] = "adding"]
  /\ runs' = [runs EXCEPT ![c] = runs[c] + 1]
  /\ UNCHANGED <<task, todo, seen, sockets, docker, builder>>

-----------------------------------------------------------------------------
(* The main task.                                                          *)

(* Mutant: the bridge is recorded but its task ends at once. *)
AddBridgeUnspawned(c) ==
  /\ pc[c] = "adding"
  /\ Len(task[c]) < Len(plan[c])
  /\ task' = [task EXCEPT ![c] = Append(@, "done")]
  /\ UNCHANGED <<mains, sockets, docker, builder>>

(* add_bridge spawns the accept task and goes on. *)
AddBridge(c) ==
  /\ pc[c] = "adding"
  /\ Len(task[c]) < Len(plan[c])
  /\ task' = [task EXCEPT ![c] = Append(@, "spawned")]
  /\ UNCHANGED <<mains, sockets, docker, builder>>

(* Mutant: the loops run over the requested platforms, bridged or not. *)
AllAddedRequested(c) ==
  /\ pc[c] = "adding"
  /\ Len(task[c]) = Len(plan[c])
  /\ pc' = [pc EXCEPT ![c] = "buildx"]
  /\ todo' = [todo EXCEPT ![c] = Platforms]
  /\ UNCHANGED <<runs, plan, task, seen, sockets, docker, builder>>

AllAdded(c) ==
  /\ pc[c] = "adding"
  /\ Len(task[c]) = Len(plan[c])
  /\ pc' = [pc EXCEPT ![c] = "buildx"]
  /\ todo' = [todo EXCEPT ![c] = Managed(c)]
  /\ UNCHANGED <<runs, plan, task, seen, sockets, docker, builder>>

(* docker buildx inspect; without docker there is no builder either. *)
Inspect(c) ==
  /\ pc[c] = "buildx"
  /\ todo[c] # {}
  /\ seen[c] = "none"
  /\ seen' = [seen EXCEPT ![c] = IF docker /\ builder # {} THEN "yes" ELSE "no"]
  /\ UNCHANGED <<pc, runs, plan, todo, task, sockets, docker, builder>>

(* Mutant: --append is never passed. *)
CreateNoAppend(c) ==
  /\ pc[c] = "buildx"
  /\ seen[c] # "none"
  /\ \E p \in todo[c] :
       /\ builder' = IF docker /\ builder = {} THEN {Arch[p]} ELSE builder
       /\ todo' = [todo EXCEPT ![c] = todo[c] \ {p}]
  /\ seen' = [seen EXCEPT ![c] = "none"]
  /\ UNCHANGED <<pc, runs, plan, task, sockets, docker>>

(* docker buildx create, with --append if the builder was seen: docker     *)
(* refuses to create one that exists and to append to one that does not.   *)
(* A failure is logged and the loop goes on.                               *)
Create(c) ==
  /\ pc[c] = "buildx"
  /\ seen[c] # "none"
  /\ \E p \in todo[c] :
       /\ builder' = IF docker /\ (builder # {} <=> seen[c] = "yes")
                       THEN builder \cup {Arch[p]}
                       ELSE builder
       /\ todo' = [todo EXCEPT ![c] = todo[c] \ {p}]
  /\ seen' = [seen EXCEPT ![c] = "none"]
  /\ UNCHANGED <<pc, runs, plan, task, sockets, docker>>

(* The status is printed and the process waits for ctrl-c. *)
AllCreated(c) ==
  /\ pc[c] = "buildx"
  /\ todo[c] = {}
  /\ pc' = [pc EXCEPT ![c] = "running"]
  /\ UNCHANGED <<runs, plan, todo, seen, task, sockets, docker, builder>>

(* shutdown aborts every accept task without waiting for it. *)
CtrlC(c) ==
  /\ pc[c] = "running"
  /\ pc' = [pc EXCEPT ![c] = "cleaning"]
  /\ todo' = [todo EXCEPT ![c] = Managed(c)]
  /\ UNCHANGED <<runs, plan, seen, task, sockets, docker, builder>>

(* Mutant: every orbit socket of the machine is removed. *)
CleanAllSockets(c) ==
  /\ pc[c] = "cleaning"
  /\ \E p \in todo[c] :
       /\ files' = {}
       /\ open' = {}
       /\ todo' = [todo EXCEPT ![c] = todo[c] \ {p}]
  /\ UNCHANGED <<pc, runs, plan, seen, task, docker, builder>>

CleanSocket(c) ==
  /\ pc[c] = "cleaning"
  /\ \E p \in todo[c] :
       /\ CleanupSocket(Arch[p])
       /\ todo' = [todo EXCEPT ![c] = todo[c] \ {p}]
  /\ UNCHANGED <<pc, runs, plan, seen, task, docker, builder>>

RemoveBuilder(c) ==
  /\ pc[c] = "cleaning"
  /\ todo[c] = {}
  /\ pc' = [pc EXCEPT ![c] = "exiting"]
  /\ builder' = IF docker THEN {} ELSE builder
  /\ UNCHANGED <<runs, plan, todo, seen, task, sockets, docker>>

Die(c) ==
  /\ pc' = [pc EXCEPT ![c] = "down"]
  /\ plan' = [plan EXCEPT ![c] = <<>>]
  /\ task' = [task EXCEPT ![c] = <<>>]
  /\ todo' = [todo EXCEPT ![c] = {}]
  /\ seen' = [seen EXCEPT ![c] = "none"]
  /\ open' = {t \in open : t[1] # c}
  /\ UNCHANGED <<runs, files, docker, builder>>

(* The router is shut down and the process returns; the runtime waits for  *)
(* a task that is being polled.                                            *)
Exit(c) ==
  /\ pc[c] = "exiting"
  /\ \A i \in 1 .. Len(task[c]) : task[c][i] \notin {"unlinked", "failed"}
  /\ Die(c)

(* SIGKILL, as link and the action send it, or a signal without a handler. *)
Kill(c) == pc[c] # "down" /\ Die(c)

-----------------------------------------------------------------------------
(* The accept task of a bridge.  Nothing is awaited from its start until   *)
(* accept(), so an abort takes effect before the one or at the other.      *)

Aborted(c) == pc[c] \in {"cleaning", "exiting"}

(* Mutant: the file of an earlier run is left in place. *)
TaskNoUnlink(c, i) ==
  /\ task[c][i] = "spawned"
  /\ ~Aborted(c)
  /\ SetTask(c, i, "unlinked")
  /\ UNCHANGED <<mains, sockets, docker, builder>>

(* Bridge::run starts by removing the file of an earlier run. *)
TaskUnlink(c, i) ==
  /\ task[c][i] = "spawned"
  /\ ~Aborted(c)
  /\ SetTask(c, i, "unlinked")
  /\ CleanupSocket(Path(c, i))
  /\ UNCHANGED <<mains, docker, builder>>

(* UnixListener::bind fails if the path exists again. *)
TaskBind(c, i) ==
  /\ task[c][i] = "unlinked"
  /\ Path(c, i) \notin files
  /\ SetTask(c, i, "listening")
  /\ files' = files \cup {Path(c, i)}
  /\ open' = open \cup {<<c, i>>}
  /\ UNCHANGED <<mains, docker, builder>>

TaskBindFails(c, i) ==
  /\ task[c][i] = "unlinked"
  /\ Path(c, i) \in files
  /\ SetTask(c, i, "failed")
  /\ UNCHANGED <<mains, sockets, docker, builder>>

(* The task logs the error and removes the file, whosever it is. *)
TaskCleanup(c, i) ==
  /\ task[c][i] = "failed"
  /\ SetTask(c, i, "done")
  /\ CleanupSocket(Path(c, i))
  /\ UNCHANGED <<mains, docker, builder>>

(* The future is dropped, and its listener with it; the file stays. *)
TaskCancelled(c, i) ==
  /\ task[c][i] \in {"spawned", "listening"}
  /\ Aborted(c)
  /\ SetTask(c, i, "done")
  /\ open' = open \ {<<c, i>>}
  /\ UNCHANGED <<mains, files, docker, builder>>

-----------------------------------------------------------------------------
MainTask(c) ==
  \/ AddBridge(c) \/ AllAdded(c)
  \/ Inspect(c) \/ Create(c) \/ AllCreated(c)
  \/ CleanSocket(c) \/ RemoveBuilder(c) \/ Exit(c)

AcceptTask(c, i) ==
  /\ i \in 1 .. Len(task[c])
  /\ \/ TaskUnlink(c, i)
     \/ TaskBind(c, i) \/ TaskBindFails(c, i)
     \/ TaskCleanup(c, i) \/ TaskCancelled(c, i)

AcceptTasks(c) == \E i \in 1 .. Len(task[c]) : AcceptTask(c, i)

Next ==
  \E c \in Controls :
    Start(c) \/ MainTask(c) \/ AcceptTasks(c) \/ CtrlC(c) \/ Kill(c)

Spec == Init /\ [][Next]_vars

(* The runtime polls the tasks of a process, and docker answers.  Nobody   *)
(* owes a start, a signal or a kill.                                       *)
FairSpec ==
  /\ Spec
  /\ \A c \in Controls : WF_vars(MainTask(c)) /\ WF_vars(AcceptTasks(c))

-----------------------------------------------------------------------------
(* Properties.                                                             *)

(* The types of the processes, their tasks and the machine. *)
TypeOK ==
  /\ pc \in [Controls -> {"down", "adding", "buildx", "running", "cleaning",
                          "exiting"}]
  /\ runs \in [Controls -> Nat]
  /\ \A c \in Controls : runs[c] <= MaxRuns[c]
  /\ plan \in [Controls -> Seq(Platforms)]
  /\ task \in [Controls -> Seq({"spawned", "unlinked", "listening", "failed",
                                "done"})]
  /\ todo \in [Controls -> SUBSET Platforms]
  /\ \A c \in Controls :
       /\ Len(task[c]) <= Len(plan[c])
       /\ todo[c] \subseteq Managed(c)
  /\ seen \in [Controls -> {"none", "yes", "no"}]
  /\ files \subseteq Paths
  /\ open \subseteq Controls \X (Nat \ {0})
  /\ \A t \in open :
       /\ t[2] \in 1 .. Len(task[t[1]])
       /\ task[t[1]][t[2]] = "listening"
       /\ Path(t[1], t[2]) \in files
  /\ docker \in BOOLEAN
  /\ builder \subseteq Paths

(* Every accept task of c has come to accept() or has ended. *)
Settled(c) ==
  /\ Len(task[c]) = Len(plan[c])
  /\ \A i \in 1 .. Len(task[c]) : task[c][i] \in {"listening", "done"}

(* The file of the i-th bridge leads to a listener for the same platform.  *)
Serves(c, i) ==
  \E j \in 1 .. Len(task[c]) :
    /\ plan[c][j] = plan[c][i]
    /\ <<c, j>> \in open

(* Of the bridges that c may have, one at most wants the socket x. *)
Single(c, x) ==
  \A l \in Plans[c] : \A i, j \in 1 .. Len(l) :
    Arch[l[i]] = x /\ Arch[l[j]] = x => i = j

(* No other process may have one that does. *)
Unrivalled(c, x) ==
  \A d \in Controls \ {c} : \A l \in Plans[d] : \A i \in 1 .. Len(l) : Arch[l[i]] # x

(* Doc comment of BridgeManager, "each bridge corresponds to one platform  *)
(* and proxies Docker buildx connections to the matching Satellite": from  *)
(* the moment the accept tasks have settled until shutdown, every platform *)
(* has a socket file and its own bridge behind it, whatever files earlier  *)
(* runs left.                                                              *)
SocketsServe ==
  \A c \in Controls :
    pc[c] \in {"buildx", "running"} /\ Settled(c) =>
      \A i \in 1 .. Len(plan[c]) : Serves(c, i)

(* With docker at hand, the builder of a process that no other mission     *)
(* control ran beside lists every bridge once the process says it is       *)
(* running, also when a killed run left a builder behind; and a process    *)
(* that shuts down leaves no builder.                                      *)
BuilderComplete ==
  \A c \in Controls :
    docker /\ (\A d \in Controls \ {c} : runs[d] = 0) =>
      /\ pc[c] = "running" => {Arch[p] : p \in Managed(c)} \subseteq builder
      /\ pc[c] = "exiting" => builder = {}

(* Every bridge that was added is open in the end, unless the process is   *)
(* stopped or killed before.                                               *)
BridgesOpen ==
  \A c \in Controls :
    pc[c] = "adding" ~>
      \/ pc[c] \in {"cleaning", "exiting", "down"}
      \/ pc[c] = "running" /\ \A i \in 1 .. Len(plan[c]) : Serves(c, i)
=============================================================================
