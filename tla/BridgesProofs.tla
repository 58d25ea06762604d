--------------------------- MODULE BridgesProofs ---------------------------
(***************************************************************************)
(* For any processes, platforms and socket names: the types of the module. *)
(* A process has its own bridge behind each socket that no other bridge    *)
(* can want (OwnSocketsServe, SocketsServe), and the builder of one that   *)
(* is alone lists its bridges (BuilderComplete).                           *)
(***************************************************************************)
EXTENDS Bridges, TLAPS

TaskStates == {"spawned", "unlinked", "listening", "failed", "done"}

(* A process that is down has no tasks and no loop under way. *)
DownEmpty ==
  \A c \in Controls :
    pc[c] = "down" => task[c] = <<>> /\ todo[c] = {} /\ plan[c] = <<>>

IInv == TypeOK /\ DownEmpty

-----------------------------------------------------------------------------
(* The path of a task is one of the machine's socket paths. *)
LEMMA PathType ==
  ASSUME TypeOK, NEW c \in Controls, NEW i \in 1 .. Len(task[c])
  PROVE  /\ i \in 1 .. Len(plan[c])
         /\ plan[c][i] \in Platforms
         /\ Path(c, i) \in Paths
<1>1. /\ Len(task[c]) \in Nat /\ Len(plan[c]) \in Nat
      /\ Len(task[c]) <= Len(plan[c])
      /\ plan[c] \in Seq(Platforms)
  BY DEF TypeOK
<1>2. i \in 1 .. Len(plan[c])
  BY <1>1
<1>3. plan[c][i] \in Platforms
  BY <1>1, <1>2
<1> QED
  BY <1>2, <1>3 DEF Path, Paths

LEMMA InitIInv == Init => IInv
<1> SUFFICES ASSUME Init PROVE IInv
  OBVIOUS
<1>1. TypeOK
  <2>1. files \in SUBSET Paths /\ docker \in BOOLEAN
    BY PlanSets DEF Init, Paths
  <2> QED
    BY <2>1, PlanSets DEF Init, TypeOK, Managed
<1>2. DownEmpty
  BY DEF Init, DownEmpty
<1> QED
  BY <1>1, <1>2 DEF IInv

(* cleanup_socket keeps what TypeOK says of the sockets. *)
LEMMA CleanupKeeps ==
  ASSUME IInv, NEW path, CleanupSocket(path)
  PROVE  /\ files' \subseteq Paths
         /\ open' \subseteq open
         /\ \A t \in open' : Path(t[1], t[2]) \in files'
  BY DEF IInv, TypeOK, CleanupSocket

(* The machine's part of TypeOK, from what a step does. *)
LEMMA SocketsOK ==
  ASSUME IInv, open' \subseteq open, files' \subseteq Paths,
         \A t \in open : t \in open' =>
            /\ Path(t[1], t[2])' = Path(t[1], t[2])
            /\ Path(t[1], t[2]) \in files'
            /\ t[2] \in 1 .. Len(task'[t[1]])
            /\ task'[t[1]][t[2]] = "listening"
  PROVE  /\ files' \subseteq Paths
         /\ open' \subseteq Controls \X (Nat \ {0})
         /\ \A t \in open' :
              /\ t[2] \in 1 .. Len(task'[t[1]])
              /\ task'[t[1]][t[2]] = "listening"
              /\ Path(t[1], t[2])' \in files'
  BY DEF IInv, TypeOK

(* A step that leaves tasks, plans and sockets alone. *)
LEMMA MainOnly ==
  ASSUME IInv, UNCHANGED <<task, plan, sockets>>
  PROVE  /\ files' \subseteq Paths
         /\ open' \subseteq Controls \X (Nat \ {0})
         /\ \A t \in open' :
              /\ t[2] \in 1 .. Len(task'[t[1]])
              /\ task'[t[1]][t[2]] = "listening"
              /\ Path(t[1], t[2])' \in files'
  BY DEF IInv, TypeOK, Path, sockets

LEMMA ManagedSame ==
  ASSUME NEW c, UNCHANGED <<task, plan>>
  PROVE  Managed(c)' = Managed(c)
  BY DEF Managed

-----------------------------------------------------------------------------
(* One lemma per action; first the main task.                              *)

LEMMA StartKeeps == ASSUME IInv, NEW c \in Controls, Start(c) PROVE IInv'
<1> USE DEF Start
<1>1. PICK l \in Plans[c] : plan' = [plan EXCEPT ![c] = l]
  OBVIOUS
<1>2. l \in Seq(Platforms) /\ task[c] = <<>> /\ todo[c] = {}
  BY PlanSets DEF IInv, DownEmpty
<1>3. \A d \in Controls : Managed(d)' = Managed(d)
  BY <1>1, <1>2 DEF Managed, IInv, TypeOK
<1>4. \A t \in open : t[1] # c
  BY <1>2 DEF IInv, TypeOK
<1>5. \A t \in open : Path(t[1], t[2])' = Path(t[1], t[2])
  BY <1>1, <1>4 DEF Path, IInv, TypeOK
<1>6. TypeOK'
  <2>1. /\ open' \subseteq Controls \X (Nat \ {0})
        /\ files' \subseteq Paths
        /\ \A t \in open' :
             /\ t[2] \in 1 .. Len(task'[t[1]])
             /\ task'[t[1]][t[2]] = "listening"
             /\ Path(t[1], t[2])' \in files'
    BY <1>5 DEF IInv, TypeOK, sockets
  <2>2. \A d \in Controls : Len(task'[d]) <= Len(plan'[d])
    BY <1>1, <1>2 DEF IInv, TypeOK
  <2>3. \A d \in Controls : todo'[d] \subseteq Managed(d)'
    BY <1>3 DEF IInv, TypeOK
  <2>4. /\ pc' \in [Controls -> {"down", "adding", "buildx", "running",
                                 "cleaning", "exiting"}]
        /\ runs' \in [Controls -> Nat]
        /\ plan' \in [Controls -> Seq(Platforms)]
    BY <1>1, <1>2, PlanSets DEF IInv, TypeOK
  <2>5. ASSUME NEW d \in Controls PROVE runs'[d] <= MaxRuns[d]
    <3>1. /\ runs[c] < MaxRuns[c] /\ runs[c] \in Nat /\ MaxRuns[c] \in Nat
          /\ runs' = [runs EXCEPT ![c] = runs[c] + 1]
          /\ DOMAIN runs = Controls
          /\ runs[d] <= MaxRuns[d]
      BY PlanSets DEF IInv, TypeOK
    <3> QED
      BY <3>1
  <2> QED
    BY <2>1, <2>2, <2>3, <2>4, <2>5 DEF IInv, TypeOK
<1>7. DownEmpty'
  BY <1>1 DEF IInv, TypeOK, DownEmpty
<1> QED
  BY <1>6, <1>7 DEF IInv

LEMMA AddBridgeKeeps ==
  ASSUME IInv, NEW c \in Controls, AddBridge(c) PROVE IInv'
<1> USE DEF AddBridge, mains
<1>1. /\ task' = [task EXCEPT ![c] = Append(task[c], "spawned")]
      /\ task[c] \in Seq(TaskStates)
      /\ Len(task[c]) \in Nat /\ Len(plan[c]) \in Nat
  BY DEF IInv, TypeOK, TaskStates
<1>2. /\ task' \in [Controls -> Seq(TaskStates)]
      /\ Len(task'[c]) = Len(task[c]) + 1
      /\ \A i \in 1 .. Len(task[c]) : task'[c][i] = task[c][i]
  BY <1>1 DEF IInv, TypeOK, TaskStates
<1>3. \A d \in Controls : d # c => task'[d] = task[d]
  BY <1>1 DEF IInv, TypeOK
<1>4. \A d \in Controls : Managed(d) \subseteq Managed(d)'
  <2> SUFFICES ASSUME NEW d \in Controls, NEW i \in 1 .. Len(task[d])
               PROVE  i \in 1 .. Len(task'[d])
    BY DEF Managed
  <2> QED
    BY <1>1, <1>2, <1>3
<1>5. \A t \in open : /\ t[2] \in 1 .. Len(task'[t[1]])
                      /\ task'[t[1]][t[2]] = "listening"
  <2> SUFFICES ASSUME NEW t \in open
               PROVE  /\ t[2] \in 1 .. Len(task'[t[1]])
                      /\ task'[t[1]][t[2]] = "listening"
    OBVIOUS
  <2>1. /\ t[1] \in Controls /\ t[2] \in 1 .. Len(task[t[1]])
        /\ task[t[1]][t[2]] = "listening"
    BY DEF IInv, TypeOK
  <2> QED
    BY <2>1, <1>1, <1>2, <1>3
<1>6. \A t \in open : Path(t[1], t[2])' = Path(t[1], t[2])
  BY DEF Path
<1>7. /\ files' \subseteq Paths
      /\ open' \subseteq Controls \X (Nat \ {0})
      /\ \A t \in open' :
           /\ t[2] \in 1 .. Len(task'[t[1]])
           /\ task'[t[1]][t[2]] = "listening"
           /\ Path(t[1], t[2])' \in files'
  BY <1>5, <1>6 DEF IInv, TypeOK, sockets
<1>8. \A d \in Controls : /\ Len(task'[d]) <= Len(plan'[d])
                          /\ todo'[d] \subseteq Managed(d)'
  BY <1>1, <1>2, <1>3, <1>4 DEF IInv, TypeOK
<1>9. DownEmpty'
  BY <1>3 DEF IInv, TypeOK, DownEmpty
<1> QED
  BY <1>2, <1>7, <1>8, <1>9 DEF IInv, TypeOK, TaskStates

LEMMA LoopKeeps ==
  ASSUME IInv, NEW c \in Controls,
         AllAdded(c) \/ Inspect(c) \/ Create(c) \/ AllCreated(c) \/ CtrlC(c)
           \/ RemoveBuilder(c)
  PROVE  IInv'
<1>1. UNCHANGED <<task, plan, sockets, runs, docker>>
  BY DEF AllAdded, Inspect, Create, AllCreated, CtrlC, RemoveBuilder
<1>2. /\ files' \subseteq Paths
      /\ open' \subseteq Controls \X (Nat \ {0})
      /\ \A t \in open' :
           /\ t[2] \in 1 .. Len(task'[t[1]])
           /\ task'[t[1]][t[2]] = "listening"
           /\ Path(t[1], t[2])' \in files'
  BY <1>1, MainOnly
<1>3. \A d \in Controls : Managed(d)' = Managed(d) /\ Managed(d) \subseteq Platforms
  <2>1. \A d \in Controls : Managed(d) \subseteq Platforms
    BY PathType DEF Managed, IInv
  <2> QED
    BY <1>1, <2>1 DEF Managed
<1>4. /\ pc' \in [Controls -> {"down", "adding", "buildx", "running",
                               "cleaning", "exiting"}]
      /\ seen' \in [Controls -> {"none", "yes", "no"}]
      /\ pc[c] # "down" /\ pc'[c] # "down"
      /\ \A d \in Controls : d # c => pc'[d] = pc[d] /\ todo'[d] = todo[d]
  BY DEF IInv, TypeOK, AllAdded, Inspect, Create, AllCreated, CtrlC, RemoveBuilder
<1>5. /\ todo' \in [Controls -> SUBSET Platforms]
      /\ todo'[c] \subseteq Managed(c)
  BY <1>3 DEF IInv, TypeOK, AllAdded, Inspect, Create, AllCreated, CtrlC,
              RemoveBuilder
<1>6. builder' \subseteq Paths
  <2>1. CASE Create(c)
    <3>1. PICK p \in todo[c] : builder' \subseteq builder \cup {Arch[p]}
      BY <2>1 DEF Create
    <3>2. p \in Platforms /\ builder \subseteq Paths
      BY DEF IInv, TypeOK
    <3> QED
      BY <3>1, <3>2 DEF Paths
  <2>2. CASE RemoveBuilder(c)
    BY <2>2 DEF IInv, TypeOK, RemoveBuilder
  <2>3. CASE AllAdded(c) \/ Inspect(c) \/ AllCreated(c) \/ CtrlC(c)
    BY <2>3 DEF IInv, TypeOK, AllAdded, Inspect, AllCreated, CtrlC
  <2> QED
    BY <2>1, <2>2, <2>3
<1>7. TypeOK'
  <2>1. \A d \in Controls : /\ Len(task'[d]) <= Len(plan'[d])
                            /\ todo'[d] \subseteq Managed(d)'
    <3>1. ASSUME NEW d \in Controls
          PROVE  Len(task'[d]) <= Len(plan'[d])
      BY <1>1 DEF IInv, TypeOK
    <3>2. ASSUME NEW d \in Controls
          PROVE  todo'[d] \subseteq Managed(d)'
      <4>1. todo[d] \subseteq Managed(d) /\ Managed(d)' = Managed(d)
        BY <1>3 DEF IInv, TypeOK
      <4>2. d # c => todo'[d] = todo[d]
        BY <1>4
      <4> QED
        BY <1>5, <4>1, <4>2
    <3> QED
      BY <3>1, <3>2
  <2>2. /\ runs' \in [Controls -> Nat]
        /\ \A d \in Controls : runs'[d] <= MaxRuns[d]
        /\ plan' \in [Controls -> Seq(Platforms)]
        /\ docker' \in BOOLEAN
        /\ task' \in [Controls -> Seq(TaskStates)]
    BY <1>1 DEF IInv, TypeOK, TaskStates
  <2> QED
    BY <1>2, <1>4, <1>5, <1>6, <2>1, <2>2 DEF TypeOK, TaskStates
<1>8. DownEmpty'
  BY <1>1, <1>4 DEF IInv, DownEmpty
<1> QED
  BY <1>2, <1>7, <1>8 DEF IInv

LEMMA CleanSocketKeeps ==
  ASSUME IInv, NEW c \in Controls, CleanSocket(c) PROVE IInv'
<1> USE DEF CleanSocket
<1>1. PICK p \in todo[c] : /\ CleanupSocket(Arch[p])
                           /\ todo' = [todo EXCEPT ![c] = todo[c] \ {p}]
  OBVIOUS
<1>2. /\ files' \subseteq Paths
      /\ open' \subseteq open
      /\ \A t \in open' : Path(t[1], t[2])' \in files'
  BY <1>1, CleanupKeeps DEF Path
<1>3. \A d \in Controls : Managed(d)' = Managed(d)
  BY DEF Managed
<1>4. TypeOK'
  BY <1>1, <1>2, <1>3 DEF IInv, TypeOK
<1>5. DownEmpty'
  BY <1>1 DEF IInv, TypeOK, DownEmpty
<1> QED
  BY <1>4, <1>5 DEF IInv

LEMMA DieKeeps ==
  ASSUME IInv, NEW c \in Controls, Die(c) PROVE IInv'
<1> USE DEF Die
<1>1. \A d \in Controls : d # c => Managed(d)' = Managed(d)
  BY DEF Managed, IInv, TypeOK
<1>2. \A t \in open' : t \in open /\ t[1] # c
  OBVIOUS
<1>3. \A t \in open' : Path(t[1], t[2])' = Path(t[1], t[2])
  BY <1>2 DEF Path, IInv, TypeOK
<1>4. /\ plan' \in [Controls -> Seq(Platforms)]
      /\ task' \in [Controls -> Seq(TaskStates)]
      /\ \A d \in Controls : Len(task'[d]) <= Len(plan'[d])
  BY DEF IInv, TypeOK, TaskStates
<1>5. /\ todo' \in [Controls -> SUBSET Platforms]
      /\ \A d \in Controls : todo'[d] \subseteq Managed(d)'
  BY <1>1 DEF IInv, TypeOK
<1>6. \A t \in open' : /\ t[2] \in 1 .. Len(task'[t[1]])
                       /\ task'[t[1]][t[2]] = "listening"
                       /\ Path(t[1], t[2])' \in files'
  BY <1>2, <1>3 DEF IInv, TypeOK
<1>7. TypeOK'
  BY <1>2, <1>4, <1>5, <1>6 DEF IInv, TypeOK, TaskStates
<1>8. DownEmpty'
  BY DEF IInv, TypeOK, DownEmpty
<1> QED
  BY <1>7, <1>8 DEF IInv

-----------------------------------------------------------------------------
(* The accept tasks.                                                       *)

(* A task of c moves to another state; listeners other than it keep theirs *)
(* and those no longer listening are out of open.                          *)
LEMMA TaskMoves ==
  ASSUME IInv, NEW c \in Controls, NEW i \in 1 .. Len(task[c]),
         NEW state \in TaskStates, SetTask(c, i, state),
         UNCHANGED <<mains, docker, builder>>,
         files' \subseteq Paths,
         open' \subseteq open \cup {<<c, i>>},
         \A t \in open' : Path(t[1], t[2]) \in files',
         <<c, i>> \in open' => state = "listening"
  PROVE  IInv'
<1> USE DEF SetTask, mains
<1>1. /\ task' = [task EXCEPT ![c] = [task[c] EXCEPT ![i] = state]]
      /\ task[c] \in Seq(TaskStates)
      /\ Len(task[c]) \in Nat
  BY DEF IInv, TypeOK, TaskStates
<1>2. /\ [task[c] EXCEPT ![i] = state] \in Seq(TaskStates)
      /\ Len([task[c] EXCEPT ![i] = state]) = Len(task[c])
  BY <1>1
<1>3. /\ task' \in [Controls -> Seq(TaskStates)]
      /\ \A d \in Controls : Len(task'[d]) = Len(task[d])
      /\ \A d \in Controls : \A j \in 1 .. Len(task[d]) :
           task'[d][j] = IF d = c /\ j = i THEN state ELSE task[d][j]
  <2>1. task' \in [Controls -> Seq(TaskStates)]
    BY <1>1, <1>2 DEF IInv, TypeOK, TaskStates
  <2>2. task'[c] = [task[c] EXCEPT ![i] = state]
    BY <1>1 DEF IInv, TypeOK
  <2>3. \A d \in Controls : d # c => task'[d] = task[d]
    BY <1>1 DEF IInv, TypeOK
  <2>4. \A j \in 1 .. Len(task[c]) :
          task'[c][j] = IF j = i THEN state ELSE task[c][j]
    BY <1>1, <2>2
  <2> QED
    BY <1>2, <2>1, <2>2, <2>3, <2>4
<1>4. \A d \in Controls : Managed(d)' = Managed(d)
  BY <1>3 DEF Managed
<1>5. \A t \in open' : Path(t[1], t[2])' = Path(t[1], t[2])
  BY DEF Path
<1>6. open' \subseteq Controls \X (Nat \ {0})
  BY <1>1 DEF IInv, TypeOK
<1>7. ASSUME NEW t \in open'
      PROVE  /\ t[2] \in 1 .. Len(task'[t[1]])
             /\ task'[t[1]][t[2]] = "listening"
             /\ Path(t[1], t[2])' \in files'
  <2>1. CASE t = <<c, i>>
    BY <2>1, <1>3, <1>5
  <2>2. CASE t # <<c, i>>
    <3>1. /\ t \in open /\ t[1] \in Controls /\ t = <<t[1], t[2]>>
          /\ t[2] \in 1 .. Len(task[t[1]])
          /\ task[t[1]][t[2]] = "listening"
      BY <2>2 DEF IInv, TypeOK
    <3>2. ~(t[1] = c /\ t[2] = i)
      BY <2>2, <3>1
    <3> QED
      BY <1>3, <1>5, <3>1, <3>2
  <2> QED
    BY <2>1, <2>2
<1>8. TypeOK'
  BY <1>3, <1>4, <1>6, <1>7 DEF IInv, TypeOK, TaskStates
<1>9. DownEmpty'
  <2>1. ASSUME NEW d \in Controls, pc'[d] = "down"
        PROVE  task'[d] = <<>> /\ todo'[d] = {} /\ plan'[d] = <<>>
    <3>1. task[d] = <<>> /\ todo[d] = {} /\ plan[d] = <<>>
      BY <2>1 DEF IInv, DownEmpty
    <3>2. d # c
      BY <3>1
    <3> QED
      BY <1>1, <3>1, <3>2 DEF IInv, TypeOK
  <2> QED
    BY <2>1 DEF DownEmpty
<1> QED
  BY <1>8, <1>9 DEF IInv

LEMMA AcceptTaskKeeps ==
  ASSUME IInv, NEW c \in Controls, NEW i, AcceptTask(c, i) PROVE IInv'
<1>1. i \in 1 .. Len(task[c])
  BY DEF AcceptTask
<1>2. Path(c, i) \in Paths
  BY <1>1, PathType DEF IInv
<1>3. <<c, i>> \in open => task[c][i] = "listening"
  BY DEF IInv, TypeOK
<1>4. files \subseteq Paths /\ \A t \in open : Path(t[1], t[2]) \in files
  BY DEF IInv, TypeOK
<1>5. CASE TaskUnlink(c, i)
  <2>1. /\ files' \subseteq Paths /\ open' \subseteq open
        /\ \A t \in open' : Path(t[1], t[2]) \in files'
    BY <1>5, CleanupKeeps DEF TaskUnlink
  <2> QED
    BY <1>1, <1>3, <1>5, <2>1, TaskMoves DEF TaskUnlink, TaskStates
<1>6. CASE TaskBind(c, i)
  <2>1. /\ files' \subseteq Paths /\ open' = open \cup {<<c, i>>}
        /\ \A t \in open' : Path(t[1], t[2]) \in files'
    BY <1>2, <1>4, <1>6 DEF TaskBind
  <2> QED
    BY <1>1, <1>6, <2>1, TaskMoves DEF TaskBind, TaskStates
<1>7. CASE TaskBindFails(c, i)
  <2>1. files' = files /\ open' = open
    BY <1>7 DEF TaskBindFails, sockets
  <2> QED
    BY <1>1, <1>3, <1>4, <1>7, <2>1, TaskMoves DEF TaskBindFails, TaskStates
<1>8. CASE TaskCleanup(c, i)
  <2>1. /\ files' \subseteq Paths /\ open' \subseteq open
        /\ \A t \in open' : Path(t[1], t[2]) \in files'
    BY <1>8, CleanupKeeps DEF TaskCleanup
  <2> QED
    BY <1>1, <1>3, <1>8, <2>1, TaskMoves DEF TaskCleanup, TaskStates
<1>9. CASE TaskCancelled(c, i)
  <2>1. files' = files /\ open' = open \ {<<c, i>>}
    BY <1>9 DEF TaskCancelled
  <2> QED
    BY <1>1, <1>4, <1>9, <2>1, TaskMoves DEF TaskCancelled, TaskStates
<1> QED
  BY <1>5, <1>6, <1>7, <1>8, <1>9 DEF AcceptTask

LEMMA NextIInv == IInv /\ [Next]_vars => IInv'
<1> SUFFICES ASSUME IInv, [Next]_vars PROVE IInv'
  OBVIOUS
<1>1. ASSUME NEW c \in Controls,
             Start(c) \/ MainTask(c) \/ AcceptTasks(c) \/ CtrlC(c) \/ Kill(c)
      PROVE  IInv'
  <2>1. CASE Start(c)
    BY <2>1, StartKeeps
  <2>2. CASE AddBridge(c)
    BY <2>2, AddBridgeKeeps
  <2>3. CASE CleanSocket(c)
    BY <2>3, CleanSocketKeeps
  <2>4. CASE Exit(c) \/ Kill(c)
    BY <2>4, DieKeeps DEF Exit, Kill
  <2>5. CASE AcceptTasks(c)
    BY <2>5, AcceptTaskKeeps DEF AcceptTasks
  <2>6. CASE AllAdded(c) \/ Inspect(c) \/ Create(c) \/ AllCreated(c)
               \/ CtrlC(c) \/ RemoveBuilder(c)
    BY <2>6, LoopKeeps
  <2> QED
    BY <1>1, <2>1, <2>2, <2>3, <2>4, <2>5, <2>6 DEF MainTask
<1>2. CASE UNCHANGED vars
  <2>1. /\ files' \subseteq Paths
        /\ open' \subseteq Controls \X (Nat \ {0})
        /\ \A t \in open' :
             /\ t[2] \in 1 .. Len(task'[t[1]])
             /\ task'[t[1]][t[2]] = "listening"
             /\ Path(t[1], t[2])' \in files'
    BY <1>2, MainOnly DEF vars, mains
  <2>2. \A c \in Controls : Managed(c)' = Managed(c)
    BY <1>2 DEF vars, mains, Managed
  <2> QED
    BY <1>2, <2>1, <2>2 DEF vars, mains, sockets, IInv, TypeOK, DownEmpty
<1> QED
  BY <1>1, <1>2 DEF Next

-----------------------------------------------------------------------------
THEOREM Invariance == Spec => []IInv
<1> QED
  BY InitIInv, NextIInv, PTL DEF Spec

(* The processes, their tasks and the socket files keep their types; a     *)
(* path that leads to a listener exists and its task runs.                 *)
THEOREM TypeCorrect == Spec => []TypeOK
<1>1. IInv => TypeOK
  BY DEF IInv
<1> QED
  BY <1>1, Invariance, PTL

-----------------------------------------------------------------------------
(* A process gets a socket for each bridge whose path nobody races for.    *)
(* X is a set of such paths.                                               *)

(* The lists a process may bridge hold one platform with such a socket. *)
OwnPaths(c, X) == \A x \in X : Single(c, x)

(* No other process bridges a platform with such a socket. *)
Undisputed(c, X) == \A x \in X : Unrivalled(c, x)

PlanOK == \A c \in Controls : plan[c] = <<>> \/ plan[c] \in Plans[c]

TaskOK(c, i) ==
  /\ task[c][i] # "failed"
  /\ task[c][i] = "done" => Aborted(c)
  /\ task[c][i] = "unlinked" => Path(c, i) \notin files
  /\ task[c][i] = "listening" /\ ~Aborted(c) => <<c, i>> \in open

SInv(c, X) == \A i \in 1 .. Len(task[c]) : Path(c, i) \in X => TaskOK(c, i)

LEMMA NextPlanOK == IInv /\ PlanOK /\ [Next]_vars => PlanOK'
<1> SUFFICES ASSUME IInv, PlanOK, [Next]_vars PROVE PlanOK'
  OBVIOUS
<1>1. DOMAIN plan = Controls
  BY DEF IInv, TypeOK
<1>2. CASE UNCHANGED plan
  BY <1>2 DEF PlanOK
<1>3. ASSUME NEW c \in Controls, Start(c) \/ Die(c)
      PROVE  PlanOK'
  BY <1>1, <1>3 DEF Start, Die, PlanOK
<1>4. ASSUME NEW c \in Controls, AcceptTasks(c)
      PROVE  PlanOK'
  BY <1>2, <1>4 DEF AcceptTasks, AcceptTask, TaskUnlink, TaskBind, TaskBindFails,
                    TaskCleanup, TaskCancelled, mains
<1> QED
  BY <1>2, <1>3, <1>4
     DEF Next, MainTask, AddBridge, AllAdded, Inspect, Create, AllCreated, CleanSocket,
         RemoveBuilder, Exit, CtrlC, Kill, vars, mains

(* The tasks of a process have a path each. *)
LEMMA OwnApart ==
  ASSUME IInv, PlanOK, NEW c \in Controls, NEW X, OwnPaths(c, X),
         NEW i \in 1 .. Len(task[c]), NEW j \in 1 .. Len(task[c]),
         Path(c, i) \in X, Path(c, i) = Path(c, j)
  PROVE  i = j
<1>1. i \in 1 .. Len(plan[c]) /\ j \in 1 .. Len(plan[c])
  BY PathType DEF IInv
<1>2. plan[c] \in Plans[c]
  BY <1>1 DEF PlanOK
<1> QED
  BY <1>1, <1>2 DEF OwnPaths, Single, Path

(* And no other process has a task with one of them. *)
LEMMA OthersApart ==
  ASSUME IInv, PlanOK, NEW c \in Controls, NEW X, Undisputed(c, X),
         NEW d \in Controls \ {c},
         NEW i \in 1 .. Len(task[c]), NEW j \in 1 .. Len(task[d]),
         Path(c, i) \in X
  PROVE  Path(c, i) # Path(d, j)
<1>1. i \in 1 .. Len(plan[c]) /\ j \in 1 .. Len(plan[d])
  BY PathType DEF IInv
<1>2. plan[c] \in Plans[c] /\ plan[d] \in Plans[d]
  BY <1>1 DEF PlanOK
<1> QED
  BY <1>1, <1>2 DEF Undisputed, Unrivalled, Path

(* A step that leaves the process and the files at its paths alone. *)
LEMMA SInvElse ==
  ASSUME NEW c \in Controls, NEW X, SInv(c, X),
         task'[c] = task[c], plan'[c] = plan[c], pc'[c] = pc[c],
         \A i \in 1 .. Len(task[c]) : Path(c, i) \in X =>
           /\ Path(c, i) \in files' => Path(c, i) \in files
           /\ <<c, i>> \in open => <<c, i>> \in open'
  PROVE  SInv(c, X)'
  BY DEF SInv, TaskOK, Path, Aborted

-----------------------------------------------------------------------------
(* What the process itself does.                                           *)

LEMMA SInvMain ==
  ASSUME IInv, NEW c \in Controls, NEW X, SInv(c, X),
         AllAdded(c) \/ Inspect(c) \/ Create(c) \/ AllCreated(c) \/ CtrlC(c)
           \/ RemoveBuilder(c)
  PROVE  SInv(c, X)'
<1>1. UNCHANGED <<task, plan, sockets>>
  BY DEF AllAdded, Inspect, Create, AllCreated, CtrlC, RemoveBuilder
<1>2. Aborted(c) => Aborted(c)'
  BY DEF IInv, TypeOK, Aborted, AllAdded, Inspect, Create, AllCreated, CtrlC,
         RemoveBuilder
<1> QED
  BY <1>1, <1>2 DEF SInv, TaskOK, Path, sockets

LEMMA SInvStart ==
  ASSUME IInv, NEW c \in Controls, NEW X, Start(c) PROVE SInv(c, X)'
<1>1. Len(task'[c]) = 0
  BY DEF Start, IInv, DownEmpty
<1> QED
  BY <1>1 DEF SInv

LEMMA SInvDie == ASSUME IInv, NEW c \in Controls, NEW X, Die(c) PROVE SInv(c, X)'
<1>1. task'[c] = <<>>
  BY DEF Die, IInv, TypeOK
<1> QED
  BY <1>1 DEF SInv

LEMMA SInvAdd ==
  ASSUME IInv, NEW c \in Controls, NEW X, SInv(c, X), AddBridge(c) PROVE SInv(c, X)'
<1> USE DEF AddBridge, mains
<1>1. /\ task' = [task EXCEPT ![c] = Append(task[c], "spawned")]
      /\ task[c] \in Seq(TaskStates)
      /\ Len(task[c]) \in Nat
  BY DEF IInv, TypeOK, TaskStates
<1>2. /\ Len(task'[c]) = Len(task[c]) + 1
      /\ task'[c][Len(task[c]) + 1] = "spawned"
      /\ \A i \in 1 .. Len(task[c]) : task'[c][i] = task[c][i]
  BY <1>1 DEF IInv, TypeOK
<1>3. ASSUME NEW i \in 1 .. Len(task'[c])
      PROVE  (Path(c, i) \in X => TaskOK(c, i))'
  <2>1. CASE i = Len(task[c]) + 1
    BY <1>2, <2>1 DEF TaskOK
  <2>2. CASE i \in 1 .. Len(task[c])
    BY <1>2, <2>2 DEF SInv, TaskOK, Aborted, Path, sockets
  <2> QED
    BY <1>1, <1>2, <2>1, <2>2
<1> QED
  BY <1>3 DEF SInv

LEMMA SInvClean ==
  ASSUME IInv, NEW c \in Controls, NEW X, SInv(c, X), CleanSocket(c) PROVE SInv(c, X)'
<1> USE DEF CleanSocket
<1>1. PICK p \in todo[c] : CleanupSocket(Arch[p])
  OBVIOUS
<1>2. Aborted(c)' /\ Aborted(c)
  BY DEF Aborted
<1> QED
  BY <1>1, <1>2 DEF SInv, TaskOK, CleanupSocket, Path

LEMMA SInvTask ==
  ASSUME IInv, PlanOK, NEW c \in Controls, NEW X, OwnPaths(c, X), SInv(c, X),
         NEW i, AcceptTask(c, i)
  PROVE  SInv(c, X)'
<1>1. i \in 1 .. Len(task[c]) /\ (Path(c, i) \in X => TaskOK(c, i))
  BY DEF AcceptTask, SInv
<1>2. Path(c, i) \in X => ~TaskBindFails(c, i) /\ ~TaskCleanup(c, i)
  BY <1>1 DEF TaskOK, TaskBindFails, TaskCleanup
<1>3. PICK state \in TaskStates : SetTask(c, i, state)
  BY DEF AcceptTask, TaskUnlink, TaskBind, TaskBindFails, TaskCleanup, TaskCancelled,
         TaskStates
<1>4. /\ task[c] \in Seq(TaskStates)
      /\ task'[c] = [task[c] EXCEPT ![i] = state]
  BY <1>3 DEF SetTask, IInv, TypeOK, TaskStates
<1>5. /\ Len(task'[c]) = Len(task[c])
      /\ task'[c][i] = state
      /\ \A j \in 1 .. Len(task[c]) : j # i => task'[c][j] = task[c][j]
  BY <1>1, <1>4
<1>6. UNCHANGED mains
  BY DEF AcceptTask, TaskUnlink, TaskBind, TaskBindFails, TaskCleanup,
         TaskCancelled
<1>7. ASSUME NEW j \in 1 .. Len(task'[c]), Path(c, j)' \in X
      PROVE  TaskOK(c, j)'
  <2>1. j \in 1 .. Len(task[c]) /\ Path(c, j) \in X /\ TaskOK(c, j)
    BY <1>5, <1>6, <1>7 DEF SInv, Path, mains
  <2>2. j # i => /\ Path(c, j) # Path(c, i) /\ <<c, j>> # <<c, i>>
                 /\ task'[c][j] = task[c][j]
    BY <1>1, <1>5, <2>1, OwnApart
  <2>3. Path(c, j)' = Path(c, j) /\ (Aborted(c)' <=> Aborted(c))
    BY <1>6 DEF Path, Aborted, mains
  <2>4. CASE TaskUnlink(c, i)
    <3>1. task'[c][i] = "unlinked"
      BY <1>1, <1>4, <1>5, <2>4 DEF TaskUnlink, SetTask, IInv, TypeOK
    <3>2. CASE j = i
      BY <2>3, <2>4, <3>1, <3>2 DEF TaskUnlink, CleanupSocket, TaskOK
    <3>3. CASE j # i
      BY <2>1, <2>2, <2>3, <2>4, <3>3 DEF TaskUnlink, CleanupSocket, TaskOK, Path
    <3> QED
      BY <3>2, <3>3
  <2>5. CASE TaskBind(c, i)
    <3>1. task'[c][i] = "listening"
      BY <1>1, <1>4, <1>5, <2>5 DEF TaskBind, SetTask, IInv, TypeOK
    <3>2. CASE j = i
      BY <2>3, <2>5, <3>1, <3>2 DEF TaskBind, TaskOK
    <3>3. CASE j # i
      BY <2>1, <2>2, <2>3, <2>5, <3>3 DEF TaskBind, TaskOK
    <3> QED
      BY <3>2, <3>3
  <2>6. CASE TaskCancelled(c, i)
    <3>1. task'[c][i] = "done" /\ Aborted(c)
      BY <1>1, <1>4, <1>5, <2>6 DEF TaskCancelled, SetTask, IInv, TypeOK
    <3>2. CASE j = i
      BY <2>3, <3>1, <3>2 DEF TaskOK
    <3>3. CASE j # i
      BY <2>1, <2>2, <2>3, <2>6, <3>3 DEF TaskCancelled, TaskOK
    <3> QED
      BY <3>2, <3>3
  <2>7. CASE TaskBindFails(c, i) \/ TaskCleanup(c, i)
    <3>1. j # i
      BY <1>2, <2>1, <2>7
    <3> QED
      BY <2>1, <2>2, <2>3, <2>7, <3>1
         DEF TaskBindFails, TaskCleanup, CleanupSocket, TaskOK, Path, sockets
  <2> QED
    BY <2>4, <2>5, <2>6, <2>7 DEF AcceptTask
<1> QED
  BY <1>7 DEF SInv

(* No bind at these paths fails by the doing of the process itself. *)
LEMMA OwnStep ==
  ASSUME IInv, PlanOK, NEW c \in Controls, NEW X, OwnPaths(c, X), SInv(c, X),
         Start(c) \/ MainTask(c) \/ AcceptTasks(c) \/ CtrlC(c) \/ Kill(c)
  PROVE  SInv(c, X)'
<1>1. CASE Start(c)
  BY <1>1, SInvStart
<1>2. CASE AddBridge(c)
  BY <1>2, SInvAdd
<1>3. CASE CleanSocket(c)
  BY <1>3, SInvClean
<1>4. CASE Exit(c) \/ Kill(c)
  BY <1>4, SInvDie DEF Exit, Kill
<1>5. CASE AcceptTasks(c)
  BY <1>5, SInvTask DEF AcceptTasks
<1>6. CASE AllAdded(c) \/ Inspect(c) \/ Create(c) \/ AllCreated(c)
             \/ CtrlC(c) \/ RemoveBuilder(c)
  BY <1>6, SInvMain
<1> QED
  BY <1>1, <1>2, <1>3, <1>4, <1>5, <1>6 DEF MainTask

-----------------------------------------------------------------------------
(* What the other processes do.                                            *)

LEMMA OtherTask ==
  ASSUME IInv, PlanOK, NEW c \in Controls, NEW X, Undisputed(c, X), SInv(c, X),
         NEW d \in Controls \ {c}, NEW j, AcceptTask(d, j)
  PROVE  SInv(c, X)'
<1>1. j \in 1 .. Len(task[d])
  BY DEF AcceptTask
<1>2. \A i \in 1 .. Len(task[c]) :
        Path(c, i) \in X => Path(c, i) # Path(d, j) /\ <<c, i>> # <<d, j>>
  BY <1>1, OthersApart
<1>3. task'[c] = task[c] /\ UNCHANGED mains
  BY DEF AcceptTask, TaskUnlink, TaskBind, TaskBindFails, TaskCleanup,
         TaskCancelled, SetTask, IInv, TypeOK
<1>4. CASE TaskUnlink(d, j) \/ TaskCleanup(d, j)
  BY <1>2, <1>3, <1>4, SInvElse DEF TaskUnlink, TaskCleanup, CleanupSocket, mains, Path
<1>5. CASE TaskBind(d, j) \/ TaskBindFails(d, j) \/ TaskCancelled(d, j)
  BY <1>2, <1>3, <1>5, SInvElse
     DEF TaskBind, TaskBindFails, TaskCancelled, mains, sockets
<1> QED
  BY <1>4, <1>5 DEF AcceptTask

LEMMA OtherStep ==
  ASSUME IInv, PlanOK, NEW c \in Controls, NEW X, Undisputed(c, X), SInv(c, X),
         NEW d \in Controls \ {c},
         Start(d) \/ MainTask(d) \/ AcceptTasks(d) \/ CtrlC(d) \/ Kill(d)
  PROVE  SInv(c, X)'
<1>1. /\ DOMAIN pc = Controls /\ DOMAIN plan = Controls /\ DOMAIN task = Controls
  BY DEF IInv, TypeOK
<1>2. CASE AcceptTasks(d)
  BY <1>2, OtherTask DEF AcceptTasks
<1>3. CASE CleanSocket(d)
  <2>1. PICK p \in todo[d] : CleanupSocket(Arch[p])
    BY <1>3 DEF CleanSocket
  <2>2. PICK k \in 1 .. Len(task[d]) : p = plan[d][k]
    BY DEF IInv, TypeOK, Managed
  <2>3. \A i \in 1 .. Len(task[c]) : Path(c, i) \in X => Path(c, i) # Arch[p]
    BY <2>2, OthersApart DEF Path
  <2>4. task'[c] = task[c] /\ plan'[c] = plan[c] /\ pc'[c] = pc[c]
    BY <1>3 DEF CleanSocket
  <2> QED
    BY <2>1, <2>3, <2>4, SInvElse DEF CleanupSocket, Path
<1>4. CASE Start(d) \/ AddBridge(d) \/ AllAdded(d) \/ Inspect(d) \/ Create(d)
             \/ AllCreated(d) \/ CtrlC(d) \/ RemoveBuilder(d)
  <2>1. /\ task'[c] = task[c] /\ plan'[c] = plan[c] /\ pc'[c] = pc[c]
        /\ UNCHANGED sockets
    BY <1>1, <1>4 DEF Start, AddBridge, AllAdded, Inspect, Create, AllCreated, CtrlC,
                      RemoveBuilder, mains
  <2> QED
    BY <2>1, SInvElse DEF sockets
<1>5. CASE Exit(d) \/ Kill(d)
  BY <1>1, <1>5, SInvElse DEF Exit, Kill, Die
<1> QED
  BY <1>2, <1>3, <1>4, <1>5 DEF MainTask

LEMMA NextSInv ==
  ASSUME NEW c \in Controls, NEW X, OwnPaths(c, X), Undisputed(c, X)
  PROVE  IInv /\ PlanOK /\ SInv(c, X) /\ [Next]_vars => SInv(c, X)'
<1> SUFFICES ASSUME IInv, PlanOK, SInv(c, X), [Next]_vars PROVE SInv(c, X)'
  OBVIOUS
<1>1. CASE UNCHANGED vars
  BY <1>1, SInvElse DEF vars, mains, sockets
<1> QED
  BY <1>1, OwnStep, OtherStep DEF Next

(* A bridge at one of the paths, once its task has come to accept() or has *)
(* ended, is open until its process is told to stop.                       *)
ServesAll(c, X) ==
  pc[c] \in {"adding", "buildx", "running"} =>
    \A i \in 1 .. Len(task[c]) :
      Path(c, i) \in X /\ task[c][i] \notin {"spawned", "unlinked"} =>
        <<c, i>> \in open

LEMMA TasksServe ==
  ASSUME IInv, NEW c \in Controls, NEW X, SInv(c, X) PROVE ServesAll(c, X)
<1> SUFFICES ASSUME pc[c] \in {"adding", "buildx", "running"},
                    NEW i \in 1 .. Len(task[c]), Path(c, i) \in X,
                    task[c][i] \notin {"spawned", "unlinked"}
             PROVE  <<c, i>> \in open
  BY DEF ServesAll
<1>1. TaskOK(c, i) /\ ~Aborted(c)
  BY DEF SInv, Aborted
<1>2. task[c] \in Seq(TaskStates)
  BY DEF IInv, TypeOK, TaskStates
<1>3. task[c][i] = "listening"
  BY <1>1, <1>2 DEF TaskOK, TaskStates
<1> QED
  BY <1>1, <1>3 DEF TaskOK

(* A socket of a mission control that no other bridge of its own or of     *)
(* another process can want: whatever the others race for, and whatever    *)
(* files killed runs left behind, it is there with its own bridge behind   *)
(* it from the moment its accept task has settled.                         *)
THEOREM OwnSocketsServe ==
  ASSUME NEW c \in Controls, NEW X, OwnPaths(c, X), Undisputed(c, X)
  PROVE  Spec => []ServesAll(c, X)
<1>1. Init => PlanOK /\ SInv(c, X)
  BY DEF Init, PlanOK, SInv
<1>2. IInv /\ PlanOK /\ SInv(c, X) /\ [Next]_vars => PlanOK' /\ SInv(c, X)'
  BY NextPlanOK, NextSInv
<1>3. IInv /\ SInv(c, X) => ServesAll(c, X)
  BY TasksServe
<1> QED
  BY <1>1, <1>2, <1>3, Invariance, PTL DEF Spec

(* The paths a process may bridge. *)
PathsOf(c) ==
  {x \in Paths : \E l \in Plans[c] : \E i \in 1 .. Len(l) : Arch[l[i]] = x}

LEMMA SettledServes ==
  ASSUME IInv, PlanOK, NEW c \in Controls, SInv(c, PathsOf(c)),
         pc[c] \in {"buildx", "running"}, Settled(c), NEW i \in 1 .. Len(plan[c])
  PROVE  Serves(c, i)
<1>1. i \in 1 .. Len(task[c]) /\ task[c][i] \in {"listening", "done"}
  BY DEF Settled
<1>2. plan[c] \in Plans[c] /\ Path(c, i) \in Paths
  BY <1>1, PathType DEF PlanOK, IInv
<1>3. Path(c, i) \in PathsOf(c)
  BY <1>2 DEF PathsOf, Path
<1>4. <<c, i>> \in open
  BY <1>1, <1>3, TasksServe DEF ServesAll
<1> QED
  BY <1>1, <1>4 DEF Serves

(* So when no two bridges of the machine can want the same path, every     *)
(* process has its sockets.                                                *)
THEOREM SocketsServeHolds ==
  ASSUME \A c \in Controls : OwnPaths(c, PathsOf(c)) /\ Undisputed(c, PathsOf(c))
  PROVE  Spec => []SocketsServe
<1> DEFINE AllOK == \A c \in Controls : SInv(c, PathsOf(c))
<1>1. Init => PlanOK /\ AllOK
  BY DEF Init, PlanOK, SInv
<1>2. IInv /\ PlanOK /\ AllOK /\ [Next]_vars => PlanOK' /\ AllOK'
  BY NextPlanOK, NextSInv
<1>3. IInv /\ PlanOK /\ AllOK => SocketsServe
  BY SettledServes DEF SocketsServe
<1> QED
  BY <1>1, <1>2, <1>3, Invariance, PTL DEF Spec

-----------------------------------------------------------------------------
(* The builder of a process that no other one ran beside.                  *)

(* A process that is down does nothing but start. *)
LEMMA DownStill ==
  ASSUME IInv, NEW c \in Controls, pc[c] = "down"
  PROVE  ~MainTask(c) /\ ~AcceptTasks(c) /\ ~CtrlC(c) /\ ~Kill(c)
<1>1. Len(task[c]) = 0
  BY DEF IInv, DownEmpty
<1>2. ~AcceptTasks(c)
  BY <1>1 DEF AcceptTasks
<1> QED
  BY <1>2 DEF MainTask, AddBridge, AllAdded, Inspect, Create, AllCreated,
              CleanSocket, RemoveBuilder, Exit, CtrlC, Kill

(* A step of a process is no step of another. *)
LEMMA OthersStay ==
  ASSUME IInv, NEW d \in Controls,
         Start(d) \/ MainTask(d) \/ AcceptTasks(d) \/ CtrlC(d) \/ Die(d)
  PROVE  \A c \in Controls \ {d} : pc'[c] = pc[c] /\ runs'[c] = runs[c]
<1>1. pc \in [Controls -> {"down", "adding", "buildx", "running", "cleaning",
                           "exiting"}]
      /\ runs \in [Controls -> Nat]
  BY DEF IInv, TypeOK
<1>2. CASE AcceptTasks(d)
  <2>1. UNCHANGED mains
    BY <1>2 DEF AcceptTasks, AcceptTask, TaskUnlink, TaskBind, TaskBindFails,
                TaskCleanup, TaskCancelled
  <2> QED
    BY <2>1 DEF mains
<1>3. CASE MainTask(d)
  BY <1>1, <1>3 DEF MainTask, AddBridge, AllAdded, Inspect, Create, AllCreated,
                    CleanSocket, RemoveBuilder, Exit, Die, mains
<1>4. CASE Start(d) \/ CtrlC(d) \/ Die(d)
  BY <1>1, <1>4 DEF Start, CtrlC, Die
<1> QED
  BY <1>2, <1>3, <1>4

(* A process that was never started is down. *)
Fresh == \A d \in Controls : runs[d] = 0 => pc[d] = "down"

(* Starts are counted, and a process runs only after one. *)
LEMMA ProcessFresh ==
  ASSUME IInv, Fresh, NEW d \in Controls,
         Start(d) \/ MainTask(d) \/ AcceptTasks(d) \/ CtrlC(d) \/ Kill(d)
  PROVE  /\ Fresh'
         /\ \A c \in Controls : runs'[c] = 0 => runs[c] = 0
         /\ runs'[d] # 0
<1>1. \A c \in Controls \ {d} : pc'[c] = pc[c] /\ runs'[c] = runs[c]
  BY OthersStay DEF Kill
<1>2. runs[d] \in Nat
  BY DEF IInv, TypeOK
<1>3. CASE Start(d)
  <2>1. runs'[d] = runs[d] + 1
    BY <1>3 DEF Start, IInv, TypeOK
  <2> QED
    BY <1>1, <1>2, <2>1 DEF Fresh
<1>4. CASE ~Start(d)
  <2>1. runs[d] # 0
    BY <1>4, DownStill DEF Fresh
  <2>2. UNCHANGED runs
    BY <1>4 DEF MainTask, AddBridge, AllAdded, Inspect, Create, AllCreated,
       CleanSocket, RemoveBuilder, Exit, Die, CtrlC, Kill, AcceptTasks, AcceptTask,
       TaskUnlink, TaskBind, TaskBindFails, TaskCleanup, TaskCancelled, mains
  <2> QED
    BY <1>1, <2>1, <2>2 DEF Fresh
<1> QED
  BY <1>3, <1>4

Lone(c) == docker /\ \A d \in Controls \ {c} : runs[d] = 0

(* What was seen of the builder holds until it is created or appended to,  *)
(* and each bridge that the loop has passed is an endpoint.                *)
BuilderOK(c) ==
  /\ seen[c] = "yes" => builder # {}
  /\ seen[c] = "no" => builder = {}
  /\ pc[c] = "buildx" => \A p \in Managed(c) \ todo[c] : Arch[p] \in builder
  /\ pc[c] = "running" => \A p \in Managed(c) : Arch[p] \in builder
  /\ pc[c] = "exiting" => builder = {}

BInv ==
  /\ Fresh
  /\ \A c \in Controls : seen[c] # "none" => pc[c] = "buildx" /\ todo[c] # {}
  /\ \A c \in Controls : Lone(c) => BuilderOK(c)

(* The answer of inspect is kept only until the create it is for. *)
LEMMA SeenStays ==
  ASSUME IInv, BInv, NEW d \in Controls,
         Start(d) \/ MainTask(d) \/ AcceptTasks(d) \/ CtrlC(d) \/ Kill(d)
  PROVE  \A c \in Controls : seen'[c] # "none" => pc'[c] = "buildx" /\ todo'[c] # {}
<1>1. /\ seen \in [Controls -> {"none", "yes", "no"}]
      /\ todo \in [Controls -> SUBSET Platforms]
      /\ pc \in [Controls -> {"down", "adding", "buildx", "running",
                              "cleaning", "exiting"}]
      /\ \A c \in Controls : seen[c] # "none" => pc[c] = "buildx" /\ todo[c] # {}
  BY DEF IInv, TypeOK, BInv
<1>2. CASE AcceptTasks(d)
  <2>1. UNCHANGED mains
    BY <1>2 DEF AcceptTasks, AcceptTask, TaskUnlink, TaskBind, TaskBindFails,
                TaskCleanup, TaskCancelled
  <2> QED
    BY <1>1, <2>1 DEF mains
<1>3. CASE Start(d) \/ CtrlC(d)
  BY <1>1, <1>3 DEF Start, CtrlC
<1>4. CASE Kill(d) \/ Exit(d)
  BY <1>1, <1>4 DEF Kill, Exit, Die
<1>5. CASE AddBridge(d)
  BY <1>1, <1>5 DEF AddBridge, mains
<1>6. CASE AllAdded(d) \/ Inspect(d) \/ AllCreated(d)
  BY <1>1, <1>6 DEF AllAdded, Inspect, AllCreated
<1>7. CASE Create(d)
  BY <1>1, <1>7 DEF Create
<1>8. CASE CleanSocket(d) \/ RemoveBuilder(d)
  BY <1>1, <1>8 DEF CleanSocket, RemoveBuilder
<1> QED
  BY <1>2, <1>3, <1>4, <1>5, <1>6, <1>7, <1>8 DEF MainTask

(* A step of a process that is alone keeps its builder in order. *)
LEMMA BuilderKeeps ==
  ASSUME IInv, BInv, NEW c \in Controls, docker, BuilderOK(c),
         Start(c) \/ MainTask(c) \/ AcceptTasks(c) \/ CtrlC(c) \/ Kill(c)
  PROVE  BuilderOK(c)'
<1>1. /\ seen \in [Controls -> {"none", "yes", "no"}]
      /\ todo \in [Controls -> SUBSET Platforms]
      /\ pc \in [Controls -> {"down", "adding", "buildx", "running",
                              "cleaning", "exiting"}]
      /\ todo[c] \subseteq Managed(c)
      /\ seen[c] # "none" => pc[c] = "buildx" /\ todo[c] # {}
  BY DEF IInv, TypeOK, BInv
<1>2. CASE AcceptTasks(c)
  <2>1. UNCHANGED <<mains, builder>>
    BY <1>2 DEF AcceptTasks, AcceptTask, TaskUnlink, TaskBind, TaskBindFails,
                TaskCleanup, TaskCancelled
  <2>2. Len(task'[c]) = Len(task[c])
    <3>1. PICK i \in 1 .. Len(task[c]), state \in TaskStates : SetTask(c, i, state)
      BY <1>2 DEF AcceptTasks, AcceptTask, TaskUnlink, TaskBind, TaskBindFails,
                  TaskCleanup, TaskCancelled, TaskStates
    <3>2. task[c] \in Seq(TaskStates) /\ task' = [task EXCEPT ![c] = [task[c] EXCEPT ![i] = state]]
      BY <3>1 DEF SetTask, IInv, TypeOK, TaskStates
    <3>3. task'[c] = [task[c] EXCEPT ![i] = state]
      BY <3>2 DEF IInv, TypeOK
    <3> QED
      BY <3>2, <3>3
  <2>3. Managed(c)' = Managed(c)
    BY <2>1, <2>2 DEF Managed, mains
  <2> QED
    BY <2>1, <2>3 DEF BuilderOK, mains
<1>3. CASE Start(c)
  BY <1>1, <1>3 DEF Start, BuilderOK
<1>4. CASE Kill(c) \/ Exit(c)
  BY <1>1, <1>4 DEF Kill, Exit, Die, BuilderOK, IInv, TypeOK
<1>5. CASE AddBridge(c)
  BY <1>1, <1>5 DEF AddBridge, mains, BuilderOK
<1>6. CASE AllAdded(c)
  <2>1. Managed(c)' = Managed(c)
    BY <1>6 DEF AllAdded, Managed
  <2> QED
    BY <1>1, <1>6, <2>1 DEF AllAdded, BuilderOK
<1>7. CASE Inspect(c)
  <2>1. Managed(c)' = Managed(c)
    BY <1>7 DEF Inspect, Managed
  <2> QED
    BY <1>1, <1>7, <2>1 DEF Inspect, BuilderOK
<1>8. CASE Create(c)
  <2>1. Managed(c)' = Managed(c)
    BY <1>8 DEF Create, Managed
  <2>2. PICK p \in todo[c] :
          /\ builder' = builder \cup {Arch[p]}
          /\ todo' = [todo EXCEPT ![c] = todo[c] \ {p}]
    BY <1>1, <1>8 DEF Create, BuilderOK
  <2>3. seen'[c] = "none" /\ pc'[c] = "buildx" /\ todo'[c] = todo[c] \ {p}
    BY <1>1, <1>8, <2>2 DEF Create
  <2>4. \A q \in Managed(c) \ todo'[c] : Arch[q] \in builder'
    BY <1>8, <2>2, <2>3 DEF BuilderOK, Create
  <2> QED
    BY <2>1, <2>3, <2>4 DEF BuilderOK
<1>9. CASE AllCreated(c)
  <2>1. Managed(c)' = Managed(c)
    BY <1>9 DEF AllCreated, Managed
  <2> QED
    BY <1>1, <1>9, <2>1 DEF AllCreated, BuilderOK
<1>10. CASE CtrlC(c)
  BY <1>1, <1>10 DEF CtrlC, BuilderOK
<1>11. CASE CleanSocket(c)
  BY <1>1, <1>11 DEF CleanSocket, BuilderOK
<1>12. CASE RemoveBuilder(c)
  BY <1>1, <1>12 DEF RemoveBuilder, BuilderOK
<1> QED
  BY <1>2, <1>3, <1>4, <1>5, <1>6, <1>7, <1>8, <1>9, <1>10, <1>11, <1>12
     DEF MainTask

LEMMA NextBInv == IInv /\ BInv /\ [Next]_vars => BInv'
<1> SUFFICES ASSUME IInv, BInv, [Next]_vars PROVE BInv'
  OBVIOUS
<1>1. CASE UNCHANGED vars
  BY <1>1 DEF vars, mains, BInv, Fresh, Lone, BuilderOK, Managed
<1>2. ASSUME NEW d \in Controls,
             Start(d) \/ MainTask(d) \/ AcceptTasks(d) \/ CtrlC(d) \/ Kill(d)
      PROVE  BInv'
  <2>1. /\ Fresh'
        /\ \A c \in Controls : runs'[c] = 0 => runs[c] = 0
        /\ runs'[d] # 0
    BY <1>2, ProcessFresh DEF BInv
  <2>2. docker' = docker
    BY <1>2 DEF Start, MainTask, AddBridge, AllAdded, Inspect, Create, AllCreated,
       CleanSocket, RemoveBuilder, Exit, Die, CtrlC, Kill, AcceptTasks, AcceptTask,
       TaskUnlink, TaskBind, TaskBindFails, TaskCleanup, TaskCancelled
  <2>3. ASSUME NEW c \in Controls, Lone(c)' PROVE BuilderOK(c)'
    <3>1. c = d /\ Lone(c)
      BY <2>1, <2>2, <2>3 DEF Lone
    <3> QED
      BY <1>2, <3>1, BuilderKeeps DEF BInv, Lone
  <2>4. \A c \in Controls : seen'[c] # "none" => pc'[c] = "buildx" /\ todo'[c] # {}
    BY <1>2, SeenStays
  <2> QED
    BY <2>1, <2>3, <2>4 DEF BInv
<1> QED
  BY <1>1, <1>2 DEF Next

(* With docker at hand and no other mission control beside it, a process   *)
(* that says it is running has every bridge in the builder, and one that   *)
(* has shut down none, whatever builder a killed run of it left.           *)
THEOREM BuilderCompleteHolds == Spec => []BuilderComplete
<1>1. Init => BInv
  BY DEF Init, BInv, Fresh, Lone, BuilderOK
<1>2. BInv => BuilderComplete
  BY DEF BInv, Lone, BuilderOK, BuilderComplete
<1> QED
  BY <1>1, <1>2, NextBInv, Invariance, PTL DEF Spec
=============================================================================
