------------------------------- MODULE Launch -------------------------------
(***************************************************************************)
(* The programs that run a mission control as their child: the link        *)
(* command, and a job of the GitHub action, which uses the status command  *)
(* to wait for it and tears down after the job.  Both poll the sockets     *)
(* until a deadline.  What the child does to the machine is module         *)
(* Bridges; other mission controls may be started by hand beside it.       *)
(*                                                                         *)
(* link reads neither stdout nor stderr of its child: a child that blocks  *)
(* on a full pipe is one that takes no further step, which is always       *)
(* possible as nothing is assumed of it.  When link is killed its child    *)
(* lives on, but the prints around its wait for ctrl-c then fail, which    *)
(* ends it without a cleanup (Kill).                                       *)
(***************************************************************************)
EXTENDS Bridges

CONSTANTS
  Launched,    \* the mission controls that are children of a launcher
  Wanted,      \* per child, the platforms that its launcher asks for
  JobSocket    \* per platform, the socket that the action cleans up

ASSUME LaunchedSets ==
  /\ Launched \subseteq Controls
  /\ Wanted \in [Launched -> Seq(Platforms) \ {<<>>}]
  /\ JobSocket \in [Platforms -> STRING]

VARIABLES
  kind,        \* per child, its launcher: a "link" or a "job"
  launcher,    \* where its launcher stands
  boot,        \* the child runs, but has bridged nothing yet
  probe,       \* the platform whose socket is looked at next
  late,        \* the deadline has passed
  missed       \* status: some socket was not alive in the final pass

progress == <<probe, late, missed>>
lvars    == <<kind, launcher, boot, progress>>
allVars  == <<vars, lvars>>

ChildRuns(c) == boot[c] \/ pc[c] # "down"

(* check_socket_alive: the file exists and a listener is behind it. *)
Alive(p) == \E t \in open : Path(t[1], t[2]) = Arch[p]

Platform(c) == Wanted[c][probe[c]]

PassOver(c) == probe[c] > Len(Wanted[c])

(* The next phase begins; what it counts, it counts from the start. *)
Goto(c, state) ==
  /\ launcher' = [launcher EXCEPT ![c] = state]
  /\ probe' = [probe EXCEPT ![c] = 1]
  /\ late' = [late EXCEPT ![c] = FALSE]
  /\ missed' = [missed EXCEPT ![c] = FALSE]

-----------------------------------------------------------------------------
LaunchInit ==
  /\ Init
  /\ kind = [c \in Launched |-> "link"]
  /\ launcher = [c \in Launched |-> "idle"]
  /\ boot = [c \in Launched |-> FALSE]
  /\ probe = [c \in Launched |-> 1]
  /\ late = [c \in Launched |-> FALSE]
  /\ missed = [c \in Launched |-> FALSE]

(* spawn_mission_control or startMissionControl, then the wait begins; one  *)
(* process stands for all children of a launcher, and the next one waits    *)
(* for the end of the first.                                                *)
SpawnChild(c) ==
  /\ launcher[c] \in {"idle", "ended", "killed"}
  /\ ~ChildRuns(c)
  /\ runs[c] < MaxRuns[c]
  /\ Goto(c, "polling")
  /\ boot' = [boot EXCEPT ![c] = TRUE]
  /\ \E k \in {"link", "job"} : kind' = [kind EXCEPT ![c] = k]
  /\ UNCHANGED vars

(* child.kill() and child.wait(), or SIGTERM, which has no handler. *)
KillChild(c) ==
  /\ IF pc[c] = "down" THEN UNCHANGED vars ELSE Die(c)
  /\ boot' = [boot EXCEPT ![c] = FALSE]

-----------------------------------------------------------------------------
(* The two polling loops, of wait_for_sockets and of run_status, which are *)
(* the same, and the final pass of run_status.                             *)

ProbeAlive(c) ==
  /\ launcher[c] \in {"polling", "checking"}
  /\ ~PassOver(c)
  /\ Alive(Platform(c))
  /\ probe' = [probe EXCEPT ![c] = probe[c] + 1]
  /\ UNCHANGED <<vars, launcher, boot, late, missed, kind>>

(* Mutant: the deadline is checked only after a complete pass. *)
ProbeDeadNoDeadline(c) ==
  /\ launcher[c] = "polling"
  /\ ~PassOver(c)
  /\ ~Alive(Platform(c))
  /\ probe' = [probe EXCEPT ![c] = 1]
  /\ UNCHANGED <<vars, launcher, boot, late, missed, kind>>

(* Mutant: the next pass begins where this one stopped. *)
ProbeDeadContinues(c) ==
  /\ launcher[c] = "polling"
  /\ ~PassOver(c)
  /\ ~Alive(Platform(c))
  /\ ~late[c]
  /\ probe' = [probe EXCEPT ![c] = probe[c] + 1]
  /\ UNCHANGED <<vars, launcher, boot, late, missed, kind>>

(* The pass ends at the first socket that is not alive; sleep, and again. *)
ProbeDead(c) ==
  /\ launcher[c] = "polling"
  /\ ~PassOver(c)
  /\ ~Alive(Platform(c))
  /\ ~late[c]
  /\ probe' = [probe EXCEPT ![c] = 1]
  /\ UNCHANGED <<vars, launcher, boot, late, missed, kind>>

Deadline(c) ==
  /\ launcher[c] = "polling"
  /\ ~late[c]
  /\ late' = [late EXCEPT ![c] = TRUE]
  /\ UNCHANGED <<vars, launcher, boot, probe, missed, kind>>

(* Mutant: the child is left alone. *)
LinkTimesOutAlone(c) ==
  /\ launcher[c] = "polling"
  /\ kind[c] = "link"
  /\ ~PassOver(c) /\ ~Alive(Platform(c)) /\ late[c]
  /\ Goto(c, "ended")
  /\ UNCHANGED <<vars, boot, kind>>

(* "timed out!": link kills its child and fails. *)
LinkTimesOut(c) ==
  /\ launcher[c] = "polling"
  /\ kind[c] = "link"
  /\ ~PassOver(c) /\ ~Alive(Platform(c)) /\ late[c]
  /\ KillChild(c)
  /\ Goto(c, "ended")
  /\ UNCHANGED kind

(* status goes on with its final pass, as it does when all are ready. *)
FinalPass(c) ==
  /\ launcher[c] = "polling"
  /\ kind[c] = "job"
  /\ ~PassOver(c) => ~Alive(Platform(c)) /\ late[c]
  /\ Goto(c, "checking")
  /\ UNCHANGED <<vars, boot, kind>>

ProbeMissed(c) ==
  /\ launcher[c] = "checking"
  /\ ~PassOver(c)
  /\ ~Alive(Platform(c))
  /\ missed' = [missed EXCEPT ![c] = TRUE]
  /\ probe' = [probe EXCEPT ![c] = probe[c] + 1]
  /\ UNCHANGED <<vars, launcher, boot, late, kind>>

(* "Linked to Constellation!", or the setup step fails. *)
StatusExits(c) ==
  /\ launcher[c] = "checking"
  /\ PassOver(c)
  /\ Goto(c, IF missed[c] THEN "failed" ELSE "linked")
  /\ UNCHANGED <<vars, boot, kind>>

LinkReady(c) ==
  /\ launcher[c] = "polling"
  /\ kind[c] = "link"
  /\ PassOver(c)
  /\ Goto(c, "linked")
  /\ UNCHANGED <<vars, boot, kind>>

-----------------------------------------------------------------------------
(* How they end.                                                           *)

(* link has its handler only now; the child may get the signal as well. *)
LinkCtrlC(c) ==
  /\ launcher[c] = "linked"
  /\ kind[c] = "link"
  /\ Goto(c, "leaving")
  /\ UNCHANGED <<vars, boot, kind>>

LinkDisconnects(c) ==
  /\ launcher[c] = "leaving"
  /\ kind[c] = "link"
  /\ KillChild(c)
  /\ Goto(c, "ended")
  /\ UNCHANGED kind

(* Any other end of link, such as a signal before its handler is there. *)
LinkKilled(c) ==
  /\ kind[c] = "link"
  /\ launcher[c] \in {"polling", "linked", "leaving"}
  /\ Goto(c, "killed")
  /\ UNCHANGED <<vars, boot, kind>>

(* The job is over, failed or was cancelled: its post step runs. *)
JobEnds(c) ==
  /\ kind[c] = "job"
  /\ launcher[c] \in {"polling", "checking", "linked", "failed"}
  /\ Goto(c, "removing")
  /\ UNCHANGED <<vars, boot, kind>>

(* removeBuilder, while the child still runs. *)
JobRemovesBuilder(c) ==
  /\ launcher[c] = "removing"
  /\ builder' = IF docker THEN {} ELSE builder
  /\ Goto(c, "terminating")
  /\ UNCHANGED <<mains, task, sockets, docker, boot, kind>>

(* Mutant: the sockets are removed without waiting for the child to die. *)
JobTerminatesAsync(c) ==
  /\ launcher[c] = "terminating"
  /\ Goto(c, "unlinking")
  /\ UNCHANGED <<vars, boot, kind>>

(* killMissionControl: SIGTERM, two seconds, SIGKILL. *)
JobTerminates(c) ==
  /\ launcher[c] = "terminating"
  /\ KillChild(c)
  /\ Goto(c, "unlinking")
  /\ UNCHANGED kind

(* cleanupSockets, with the action's own idea of where they are. *)
JobUnlinks(c) ==
  /\ launcher[c] = "unlinking"
  /\ ~PassOver(c)
  /\ CleanupSocket(JobSocket[Platform(c)])
  /\ probe' = [probe EXCEPT ![c] = probe[c] + 1]
  /\ UNCHANGED <<mains, task, docker, builder, launcher, boot, late, missed, kind>>

JobDone(c) ==
  /\ launcher[c] = "unlinking"
  /\ PassOver(c)
  /\ Goto(c, "ended")
  /\ UNCHANGED <<vars, boot, kind>>

-----------------------------------------------------------------------------
(* The child.                                                              *)

(* Mutant: it begins again and again. *)
ChildStartsAgain(c) ==
  /\ boot[c]
  /\ Start(c)
  /\ UNCHANGED lvars

(* Discovery is over: the child begins to bridge, or gives up or is hit by *)
(* a signal before it does.                                                *)
ChildStarts(c) ==
  /\ boot[c]
  /\ Start(c)
  /\ boot' = [boot EXCEPT ![c] = FALSE]
  /\ UNCHANGED <<launcher, progress, kind>>

ChildBails(c) ==
  /\ boot[c]
  /\ boot' = [boot EXCEPT ![c] = FALSE]
  /\ UNCHANGED <<vars, launcher, progress, kind>>

(* A child of a killed link does not get past its next print. *)
ChildWorks(c) ==
  /\ MainTask(c) \/ AcceptTasks(c)
  /\ launcher[c] = "killed" /\ pc[c] = "buildx" => pc'[c] # "running"
  /\ UNCHANGED lvars

(* A job's child is detached: no terminal sends it a signal. *)
ChildCtrlC(c) ==
  /\ kind[c] = "link"
  /\ launcher[c] # "killed"
  /\ CtrlC(c)
  /\ UNCHANGED lvars

ChildKilled(c) ==
  /\ Kill(c)
  /\ UNCHANGED <<launcher, boot, progress, kind>>

-----------------------------------------------------------------------------
Polling(c) ==
  \/ ProbeAlive(c) \/ ProbeDead(c) \/ LinkTimesOut(c) \/ LinkReady(c)
  \/ FinalPass(c) \/ ProbeMissed(c) \/ StatusExits(c)

TearDown(c) ==
  \/ LinkDisconnects(c)
  \/ JobRemovesBuilder(c) \/ JobTerminates(c) \/ JobUnlinks(c) \/ JobDone(c)

Child(c) ==
  \/ ChildStarts(c) \/ ChildBails(c)
  \/ ChildWorks(c) \/ ChildCtrlC(c) \/ ChildKilled(c)

ByHand(c) ==
  /\ Start(c) \/ MainTask(c) \/ AcceptTasks(c) \/ CtrlC(c) \/ Kill(c)
  /\ UNCHANGED lvars

LaunchNext ==
  \/ \E c \in Launched :
       \/ SpawnChild(c) \/ Polling(c) \/ Deadline(c)
       \/ LinkCtrlC(c) \/ LinkKilled(c) \/ JobEnds(c) \/ TearDown(c)
       \/ Child(c)
  \/ \E c \in Controls \ Launched : ByHand(c)

LaunchSpec == LaunchInit /\ [][LaunchNext]_allVars

(* The launchers go on, and their clocks; nothing is owed by the child. *)
FairLaunch ==
  /\ LaunchSpec
  /\ \A c \in Launched :
       WF_allVars(Polling(c)) /\ WF_allVars(Deadline(c)) /\ WF_allVars(TearDown(c))

-----------------------------------------------------------------------------
(* Properties.                                                             *)

(* The types of the launchers; no child runs before or after its launcher. *)
LaunchTypeOK ==
  /\ TypeOK
  /\ kind \in [Launched -> {"link", "job"}]
  /\ launcher \in [Launched -> {"idle", "polling", "checking", "linked",
                                "failed", "leaving", "removing",
                                "terminating", "unlinking", "ended", "killed"}]
  /\ boot \in [Launched -> BOOLEAN]
  /\ probe \in [Launched -> Nat \ {0}]
  /\ \A c \in Launched : probe[c] <= Len(Wanted[c]) + 1
  /\ late \in [Launched -> BOOLEAN]
  /\ missed \in [Launched -> BOOLEAN]
  /\ \A c \in Launched : boot[c] => pc[c] = "down"

(* A link that timed out or was told to disconnect, and a job that is torn *)
(* down, leave no mission control running, also one that is blocked or     *)
(* that has only just begun; only a link that is killed does.              *)
NoOrphan ==
  \A c \in Launched : launcher[c] \in {"idle", "ended"} => ~ChildRuns(c)

(* No other mission control and no other launcher was ever there. *)
Alone(c) ==
  \A d \in Controls \ {c} :
    runs[d] = 0 /\ (d \in Launched => launcher[d] = "idle")

(* link.rs, "Waits for all bridge sockets to become ready": when the       *)
(* launcher says it is linked, every platform it asked for is bridged by   *)
(* its own child, as long as that has not been stopped: no socket file     *)
(* that an earlier run left and no bridge of a partial plan is taken for   *)
(* it.                                                                     *)
LinkedServes ==
  \A c \in Launched :
    launcher[c] = "linked" /\ Alone(c) /\ pc[c] \in {"adding", "buildx", "running"} =>
      \A n \in 1 .. Len(Wanted[c]) :
        \E i \in 1 .. Len(task[c]) :
          Path(c, i) = Arch[Wanted[c][n]] /\ <<c, i>> \in open

(* cleanup.ts, "Tears down": after a job that was alone, its mission       *)
(* control is gone and no socket of its platforms is there, whatever it    *)
(* was doing when the job ended, as far as both agree on the path.         *)
JobCleansUp ==
  \A c \in Launched :
    kind[c] = "job" /\ launcher[c] = "ended" /\ Alone(c) =>
      /\ ~ChildRuns(c)
      /\ \A n \in 1 .. Len(Wanted[c]) :
           LET p == Wanted[c][n]
           IN  JobSocket[p] = Arch[p] => Arch[p] \notin files

(* The sockets that only one bridge of c can want, and that the job of no  *)
(* other launcher cleans up.                                               *)
Private(c) ==
  {x \in Paths :
     /\ Single(c, x) /\ Unrivalled(c, x)
     /\ \A d \in Launched \ {c} : \A n \in 1 .. Len(Wanted[d]) :
          JobSocket[Wanted[d][n]] # x}

(* Bridges that want one socket, by colliding or duplicate platforms or in *)
(* two mission controls, unlink and fail each other.  The harm stays with  *)
(* them: a bridge with a socket to itself is open from the moment its task *)
(* has settled until its process is told to stop, whatever launchers, jobs *)
(* and other mission controls do.                                          *)
CollisionsContained ==
  \A c \in Controls :
    pc[c] \in {"adding", "buildx", "running"} =>
      \A i \in 1 .. Len(task[c]) :
        Path(c, i) \in Private(c) /\ task[c][i] \notin {"spawned", "unlinked"} =>
          <<c, i>> \in open

(* Whatever the child does, blocks or dies of, its launcher comes to a     *)
(* decision by the deadline and does not get stuck tearing down.           *)
Decides ==
  \A c \in Launched :
    launcher[c] \in {"polling", "checking", "leaving", "removing",
                     "terminating", "unlinking"}
      ~> launcher[c] \in {"linked", "failed", "ended", "killed"}
=============================================================================
