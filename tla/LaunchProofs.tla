---------------------------- MODULE LaunchProofs ----------------------------
(***************************************************************************)
(* For any mission controls, platforms and launchers: the types of the     *)
(* launchers, that no child outlives an orderly end of its launcher        *)
(* (NoOrphan), what a job leaves behind (JobCleansUp), and that bridges    *)
(* which collide harm no other (CollisionsContained).  When the platforms  *)
(* of a child have a socket each, its launcher says linked only of its own *)
(* child's bridges (LinkedServes).                                         *)
(***************************************************************************)
EXTENDS Launch, BridgesProofs

LaunchStates == {"idle", "polling", "checking", "linked", "failed", "leaving",
                 "removing", "terminating", "unlinking", "ended", "killed"}

(* The launchers' part of LaunchTypeOK. *)
LTypes ==
  /\ kind \in [Launched -> {"link", "job"}]
  /\ launcher \in [Launched -> LaunchStates]
  /\ boot \in [Launched -> BOOLEAN]
  /\ probe \in [Launched -> Nat \ {0}]
  /\ \A c \in Launched : probe[c] <= Len(Wanted[c]) + 1
  /\ late \in [Launched -> BOOLEAN]
  /\ missed \in [Launched -> BOOLEAN]

(* A child that boots has no tasks yet; once its launcher has terminated   *)
(* it, it is gone, and only a launcher that polls starts one.              *)
ChildOK ==
  \A c \in Launched :
    /\ boot[c] => pc[c] = "down"
    /\ launcher[c] \in {"idle", "ended", "unlinking"} =>
         pc[c] = "down" /\ ~boot[c]

LInv == IInv /\ LTypes /\ ChildOK

-----------------------------------------------------------------------------
(* The next phase of a launcher.                                           *)
LEMMA GotoKeeps ==
  ASSUME LTypes, NEW c \in Launched, NEW state \in LaunchStates, Goto(c, state)
  PROVE  /\ launcher' \in [Launched -> LaunchStates]
         /\ probe' \in [Launched -> Nat \ {0}]
         /\ \A d \in Launched : probe'[d] <= Len(Wanted[d]) + 1
         /\ late' \in [Launched -> BOOLEAN]
         /\ missed' \in [Launched -> BOOLEAN]
         /\ \A d \in Launched : launcher'[d] = IF d = c THEN state ELSE launcher[d]
<1>1. \A d \in Launched : Len(Wanted[d]) \in Nat
  BY LaunchedSets
<1>2. probe' = [probe EXCEPT ![c] = 1]
  BY DEF Goto
<1>3. /\ probe' \in [Launched -> Nat \ {0}]
      /\ \A d \in Launched : probe'[d] <= Len(Wanted[d]) + 1
  BY <1>1, <1>2 DEF LTypes
<1> QED
  BY <1>3 DEF Goto, LTypes

(* The next socket of the pass. *)
LEMMA AdvanceKeeps ==
  ASSUME LTypes, NEW c \in Launched, ~PassOver(c),
         probe' = [probe EXCEPT ![c] = probe[c] + 1]
  PROVE  /\ probe' \in [Launched -> Nat \ {0}]
         /\ \A d \in Launched : probe'[d] <= Len(Wanted[d]) + 1
<1>1. \A d \in Launched : Len(Wanted[d]) \in Nat
  BY LaunchedSets
<1>2. probe[c] \in Nat \ {0} /\ probe[c] <= Len(Wanted[c])
  BY <1>1 DEF LTypes, PassOver
<1> QED
  BY <1>1, <1>2 DEF LTypes

(* The pass begins again. *)
LEMMA RestartKeeps ==
  ASSUME LTypes, NEW c \in Launched, probe' = [probe EXCEPT ![c] = 1]
  PROVE  /\ probe' \in [Launched -> Nat \ {0}]
         /\ \A d \in Launched : probe'[d] <= Len(Wanted[d]) + 1
<1>1. \A d \in Launched : Len(Wanted[d]) \in Nat
  BY LaunchedSets
<1> QED
  BY <1>1 DEF LTypes

-----------------------------------------------------------------------------
(* The types of the launchers.                                             *)

(* A phase ends: what is left to show of its types is kind and boot. *)
LEMMA PhaseTypes ==
  ASSUME LTypes, NEW c \in Launched, NEW state \in LaunchStates, Goto(c, state),
         kind' \in [Launched -> {"link", "job"}],
         boot' \in [Launched -> BOOLEAN]
  PROVE  LTypes'
  BY GotoKeeps DEF LTypes

LEMMA PollingTypes ==
  ASSUME LTypes, NEW c \in Launched, Polling(c) \/ Deadline(c)
  PROVE  LTypes'
<1>1. kind \in [Launched -> {"link", "job"}] /\ boot \in [Launched -> BOOLEAN]
  BY DEF LTypes
<1>2. CASE ProbeAlive(c)
  BY <1>2, AdvanceKeeps DEF ProbeAlive, LTypes
<1>3. CASE ProbeDead(c)
  BY <1>3, RestartKeeps DEF ProbeDead, LTypes
<1>4. CASE LinkTimesOut(c)
  BY <1>1, <1>4, PhaseTypes DEF LinkTimesOut, KillChild, LaunchStates
<1>5. CASE LinkReady(c)
  BY <1>1, <1>5, PhaseTypes DEF LinkReady, LaunchStates
<1>6. CASE FinalPass(c)
  BY <1>1, <1>6, PhaseTypes DEF FinalPass, LaunchStates
<1>7. CASE ProbeMissed(c)
  BY <1>7, AdvanceKeeps DEF ProbeMissed, LTypes
<1>8. CASE StatusExits(c)
  BY <1>1, <1>8, PhaseTypes DEF StatusExits, LaunchStates
<1>9. CASE Deadline(c)
  BY <1>9 DEF Deadline, LTypes
<1> QED
  BY <1>2, <1>3, <1>4, <1>5, <1>6, <1>7, <1>8, <1>9 DEF Polling

LEMMA EndTypes ==
  ASSUME LTypes, NEW c \in Launched,
         SpawnChild(c) \/ LinkCtrlC(c) \/ LinkKilled(c) \/ JobEnds(c) \/ TearDown(c)
  PROVE  LTypes'
<1>1. kind \in [Launched -> {"link", "job"}] /\ boot \in [Launched -> BOOLEAN]
  BY DEF LTypes
<1>2. CASE SpawnChild(c)
  <2>1. kind' \in [Launched -> {"link", "job"}] /\ boot' \in [Launched -> BOOLEAN]
    BY <1>1, <1>2 DEF SpawnChild
  <2> QED
    BY <1>2, <2>1, PhaseTypes DEF SpawnChild, LaunchStates
<1>3. CASE LinkCtrlC(c)
  BY <1>1, <1>3, PhaseTypes DEF LinkCtrlC, LaunchStates
<1>4. CASE LinkKilled(c)
  BY <1>1, <1>4, PhaseTypes DEF LinkKilled, LaunchStates
<1>5. CASE JobEnds(c)
  BY <1>1, <1>5, PhaseTypes DEF JobEnds, LaunchStates
<1>6. CASE LinkDisconnects(c)
  BY <1>1, <1>6, PhaseTypes DEF LinkDisconnects, KillChild, LaunchStates
<1>7. CASE JobRemovesBuilder(c)
  BY <1>1, <1>7, PhaseTypes DEF JobRemovesBuilder, LaunchStates
<1>8. CASE JobTerminates(c)
  BY <1>1, <1>8, PhaseTypes DEF JobTerminates, KillChild, LaunchStates
<1>9. CASE JobUnlinks(c)
  BY <1>9, AdvanceKeeps DEF JobUnlinks, LTypes
<1>10. CASE JobDone(c)
  BY <1>1, <1>10, PhaseTypes DEF JobDone, LaunchStates
<1> QED
  BY <1>2, <1>3, <1>4, <1>5, <1>6, <1>7, <1>8, <1>9, <1>10 DEF TearDown

LEMMA ChildTypes ==
  ASSUME LTypes, NEW c \in Launched, Child(c)
  PROVE  LTypes'
  BY DEF Child, ChildStarts, ChildBails, ChildWorks, ChildCtrlC, ChildKilled,
         LTypes, lvars, progress

LEMMA NextLTypes == LTypes /\ [LaunchNext]_allVars => LTypes'
<1> SUFFICES ASSUME LTypes, [LaunchNext]_allVars PROVE LTypes'
  OBVIOUS
<1>1. CASE UNCHANGED lvars
  BY <1>1 DEF lvars, progress, LTypes
<1> QED
  BY <1>1, PollingTypes, EndTypes, ChildTypes DEF LaunchNext, ByHand, allVars

-----------------------------------------------------------------------------
(* The machine: what launchers do to it beyond what Bridges does.          *)

LEMMA DiesKeeps ==
  ASSUME IInv, NEW c \in Controls, KillChild(c) PROVE IInv'
<1>1. CASE UNCHANGED vars
  BY <1>1, NextIInv
<1> QED
  BY <1>1, DieKeeps DEF KillChild

(* The action removes a builder or unlinks a socket file. *)
LEMMA JobRemovesKeeps ==
  ASSUME IInv, NEW c \in Launched, JobRemovesBuilder(c) PROVE IInv'
<1>1. UNCHANGED <<pc, runs, plan, todo, seen, task, files, open, docker>>
  BY DEF JobRemovesBuilder, mains, sockets
<1>2. builder' \subseteq Paths
  BY DEF JobRemovesBuilder, IInv, TypeOK
<1>3. DownEmpty'
  BY <1>1 DEF IInv, DownEmpty
<1>4. TypeOK'
  <2>1. \A d \in Controls : Managed(d)' = Managed(d)
    BY <1>1 DEF Managed
  <2>2. \A t \in open : Path(t[1], t[2])' = Path(t[1], t[2])
    BY <1>1 DEF Path
  <2> QED
    BY <1>1, <1>2, <2>1, <2>2 DEF IInv, TypeOK
<1> QED
  BY <1>3, <1>4 DEF IInv

LEMMA JobUnlinksKeeps ==
  ASSUME IInv, NEW c \in Launched, JobUnlinks(c) PROVE IInv'
<1>1. UNCHANGED <<pc, runs, plan, todo, seen, task, docker, builder>>
  BY DEF JobUnlinks, mains
<1>2. CleanupSocket(JobSocket[Platform(c)])
  BY DEF JobUnlinks
<1>3. /\ files' \subseteq Paths
      /\ open' \subseteq open
      /\ \A t \in open' : Path(t[1], t[2])' \in files'
  BY <1>1, <1>2, CleanupKeeps DEF Path
<1>4. DownEmpty'
  BY <1>1 DEF IInv, DownEmpty
<1>5. TypeOK'
  <2>1. \A d \in Controls : Managed(d)' = Managed(d)
    BY <1>1 DEF Managed
  <2> QED
    BY <1>1, <1>3, <2>1 DEF IInv, TypeOK
<1> QED
  BY <1>4, <1>5 DEF IInv

LEMMA LaunchIInv == IInv /\ [LaunchNext]_allVars => IInv'
<1> SUFFICES ASSUME IInv, [LaunchNext]_allVars PROVE IInv'
  OBVIOUS
<1>1. CASE UNCHANGED vars
  BY <1>1, NextIInv
<1>2. ASSUME NEW c \in Controls,
             Start(c) \/ MainTask(c) \/ AcceptTasks(c) \/ CtrlC(c) \/ Kill(c)
      PROVE  IInv'
  BY <1>2, NextIInv DEF Next
<1>3. ASSUME NEW c \in Launched,
             \/ SpawnChild(c) \/ Polling(c) \/ Deadline(c)
             \/ LinkCtrlC(c) \/ LinkKilled(c) \/ JobEnds(c) \/ TearDown(c)
             \/ Child(c)
      PROVE  IInv'
  <2>1. c \in Controls
    BY LaunchedSets
  <2>2. CASE LinkTimesOut(c) \/ LinkDisconnects(c) \/ JobTerminates(c)
    BY <2>1, <2>2, DiesKeeps DEF LinkTimesOut, LinkDisconnects, JobTerminates
  <2>3. CASE JobRemovesBuilder(c) \/ JobUnlinks(c)
    BY <2>3, JobRemovesKeeps, JobUnlinksKeeps
  <2>4. CASE Child(c)
    BY <1>1, <1>2, <2>1, <2>4
       DEF Child, ChildStarts, ChildBails, ChildWorks, ChildCtrlC, ChildKilled
  <2>5. CASE SpawnChild(c) \/ Deadline(c) \/ LinkCtrlC(c) \/ LinkKilled(c)
             \/ JobEnds(c) \/ JobDone(c)
    BY <1>1, <2>5 DEF SpawnChild, Deadline, LinkCtrlC, LinkKilled, JobEnds, JobDone
  <2>6. CASE ProbeAlive(c) \/ ProbeDead(c) \/ LinkReady(c) \/ FinalPass(c)
             \/ ProbeMissed(c) \/ StatusExits(c)
    BY <1>1, <2>6 DEF ProbeAlive, ProbeDead, LinkReady, FinalPass, ProbeMissed,
                      StatusExits
  <2> QED
    BY <1>3, <2>2, <2>3, <2>4, <2>5, <2>6 DEF Polling, TearDown
<1> QED
  BY <1>1, <1>2, <1>3 DEF LaunchNext, ByHand, allVars

-----------------------------------------------------------------------------
(* The children.                                                           *)

(* What one launcher or its child does leaves the other children alone. *)
LEMMA ChildOKElse ==
  ASSUME ChildOK, NEW c \in Launched,
         \A d \in Launched \ {c} :
           pc'[d] = pc[d] /\ boot'[d] = boot[d] /\ launcher'[d] = launcher[d],
         boot'[c] => pc'[c] = "down",
         launcher'[c] \in {"idle", "ended", "unlinking"} =>
           pc'[c] = "down" /\ ~boot'[c]
  PROVE  ChildOK'
  BY DEF ChildOK

LEMMA KillChildEnds ==
  ASSUME IInv, LTypes, NEW c \in Launched, KillChild(c)
  PROVE  /\ pc'[c] = "down" /\ boot'[c] = FALSE
         /\ \A d \in Launched \ {c} : pc'[d] = pc[d] /\ boot'[d] = boot[d]
         /\ \A d \in Controls : runs'[d] = runs[d]
<1>1. c \in Controls /\ Launched \subseteq Controls
  BY LaunchedSets
<1>2. CASE pc[c] = "down"
  BY <1>2 DEF KillChild, vars, mains, LTypes
<1>3. CASE pc[c] # "down"
  <2>1. Die(c) /\ boot' = [boot EXCEPT ![c] = FALSE]
    BY <1>3 DEF KillChild
  <2>2. pc' = [pc EXCEPT ![c] = "down"] /\ UNCHANGED runs
    BY <2>1 DEF Die
  <2> QED
    BY <1>1, <2>1, <2>2 DEF LTypes, IInv, TypeOK
<1> QED
  BY <1>2, <1>3

(* A launcher goes on to another phase, and its child stays as it is. *)
LEMMA PhaseChildOK ==
  ASSUME LTypes, ChildOK, NEW c \in Launched, NEW state \in LaunchStates,
         Goto(c, state), UNCHANGED <<pc, boot>>,
         state \in {"idle", "ended", "unlinking"} => pc[c] = "down" /\ ~boot[c]
  PROVE  ChildOK'
<1>1. \A d \in Launched : launcher'[d] = IF d = c THEN state ELSE launcher[d]
  BY GotoKeeps
<1> QED
  BY <1>1 DEF ChildOK

LEMMA KillChildOK ==
  ASSUME IInv, LTypes, ChildOK, NEW c \in Launched, NEW state \in LaunchStates,
         KillChild(c), Goto(c, state)
  PROVE  ChildOK'
<1>1. \A d \in Launched : launcher'[d] = IF d = c THEN state ELSE launcher[d]
  BY GotoKeeps
<1> QED
  BY <1>1, KillChildEnds, ChildOKElse

LEMMA LauncherChildOK ==
  ASSUME IInv, LTypes, ChildOK, NEW c \in Launched,
         \/ SpawnChild(c) \/ Polling(c) \/ Deadline(c)
         \/ LinkCtrlC(c) \/ LinkKilled(c) \/ JobEnds(c) \/ TearDown(c)
  PROVE  ChildOK'
<1>1. CASE SpawnChild(c)
  <2>1. \A d \in Launched : launcher'[d] = IF d = c THEN "polling" ELSE launcher[d]
    BY <1>1, GotoKeeps DEF SpawnChild, LaunchStates
  <2>2. pc[c] = "down" /\ UNCHANGED pc
    BY <1>1 DEF SpawnChild, ChildRuns, vars, mains
  <2>3. \A d \in Launched \ {c} : boot'[d] = boot[d]
    BY <1>1 DEF SpawnChild, LTypes
  <2> QED
    BY <2>1, <2>2, <2>3, ChildOKElse
<1>2. CASE LinkTimesOut(c) \/ LinkDisconnects(c) \/ JobTerminates(c)
  BY <1>2, KillChildOK DEF LinkTimesOut, LinkDisconnects, JobTerminates, LaunchStates
<1>3. CASE JobDone(c)
  <2>1. pc[c] = "down" /\ ~boot[c]
    BY <1>3 DEF JobDone, ChildOK
  <2> QED
    BY <1>3, <2>1, PhaseChildOK DEF JobDone, LaunchStates, vars, mains
<1>4. CASE JobUnlinks(c)
  BY <1>4 DEF JobUnlinks, ChildOK, mains
<1>5. CASE ProbeAlive(c) \/ ProbeDead(c) \/ ProbeMissed(c) \/ Deadline(c)
  BY <1>5 DEF ProbeAlive, ProbeDead, ProbeMissed, Deadline, ChildOK, vars, mains
<1>6. CASE StatusExits(c)
  BY <1>6, PhaseChildOK DEF StatusExits, LaunchStates, vars, mains
<1>7. CASE LinkReady(c) \/ FinalPass(c)
  BY <1>7, PhaseChildOK DEF LinkReady, FinalPass, LaunchStates, vars, mains
<1>8. CASE LinkCtrlC(c) \/ LinkKilled(c) \/ JobEnds(c)
  BY <1>8, PhaseChildOK DEF LinkCtrlC, LinkKilled, JobEnds, LaunchStates, vars, mains
<1>9. CASE JobRemovesBuilder(c)
  BY <1>9, PhaseChildOK DEF JobRemovesBuilder, LaunchStates, mains
<1> QED
  BY <1>1, <1>2, <1>3, <1>4, <1>5, <1>6, <1>7, <1>8, <1>9 DEF Polling, TearDown

LEMMA ChildChildOK ==
  ASSUME IInv, LTypes, ChildOK, NEW c \in Launched, Child(c)
  PROVE  ChildOK'
<1>1. c \in Controls /\ Launched \subseteq Controls
  BY LaunchedSets
<1>2. UNCHANGED launcher
  BY DEF Child, ChildStarts, ChildBails, ChildWorks, ChildCtrlC, ChildKilled, lvars
<1>3. CASE ChildStarts(c)
  <2>1. \A d \in Launched \ {c} : pc'[d] = pc[d]
    BY <1>1, <1>3, OthersStay DEF ChildStarts
  <2>2. boot'[c] = FALSE /\ \A d \in Launched \ {c} : boot'[d] = boot[d]
    BY <1>3 DEF ChildStarts, LTypes
  <2>3. launcher[c] \notin {"idle", "ended", "unlinking"}
    BY <1>3 DEF ChildStarts, ChildOK
  <2> QED
    BY <1>2, <2>1, <2>2, <2>3, ChildOKElse
<1>4. CASE ChildBails(c)
  <2>1. UNCHANGED pc
    BY <1>4 DEF ChildBails, vars, mains
  <2>2. boot'[c] = FALSE /\ \A d \in Launched \ {c} : boot'[d] = boot[d]
    BY <1>4 DEF ChildBails, LTypes
  <2> QED
    BY <1>2, <2>1, <2>2, ChildOKElse DEF ChildOK
<1>5. CASE ChildWorks(c) \/ ChildCtrlC(c) \/ ChildKilled(c)
  <2>1. MainTask(c) \/ AcceptTasks(c) \/ CtrlC(c) \/ Kill(c)
    BY <1>5 DEF ChildWorks, ChildCtrlC, ChildKilled
  <2>2. pc[c] # "down"
    BY <1>1, <2>1, DownStill
  <2>3. \A d \in Launched \ {c} : pc'[d] = pc[d]
    BY <1>1, <2>1, OthersStay DEF Kill
  <2>4. UNCHANGED boot
    BY <1>5 DEF ChildWorks, ChildCtrlC, ChildKilled, lvars
  <2> QED
    BY <1>2, <2>2, <2>3, <2>4, ChildOKElse DEF ChildOK
<1> QED
  BY <1>3, <1>4, <1>5 DEF Child

LEMMA NextChildOK == IInv /\ LTypes /\ ChildOK /\ [LaunchNext]_allVars => ChildOK'
<1> SUFFICES ASSUME IInv, LTypes, ChildOK, [LaunchNext]_allVars PROVE ChildOK'
  OBVIOUS
<1>1. ASSUME NEW c \in Controls \ Launched, ByHand(c)
      PROVE  ChildOK'
  <2>1. \A d \in Launched : pc'[d] = pc[d]
    BY <1>1, OthersStay, LaunchedSets DEF ByHand, Kill
  <2> QED
    BY <1>1, <2>1 DEF ByHand, lvars, ChildOK
<1>2. CASE UNCHANGED allVars
  BY <1>2 DEF allVars, vars, mains, lvars, ChildOK
<1> QED
  BY <1>1, <1>2, LauncherChildOK, ChildChildOK DEF LaunchNext

-----------------------------------------------------------------------------
LEMMA InitLInv == LaunchInit => LInv
<1> SUFFICES ASSUME LaunchInit PROVE LInv
  OBVIOUS
<1>1. \A c \in Launched : pc[c] = "down"
  BY LaunchedSets DEF LaunchInit, Init
<1>2. LTypes
  <2>1. \A c \in Launched : Len(Wanted[c]) \in Nat
    BY LaunchedSets
  <2> QED
    BY <2>1 DEF LaunchInit, LTypes, LaunchStates
<1> QED
  BY <1>1, <1>2, InitIInv DEF LaunchInit, LInv, ChildOK

LEMMA NextLInv == LInv /\ [LaunchNext]_allVars => LInv'
  BY LaunchIInv, NextLTypes, NextChildOK DEF LInv

(* The launchers and the machine keep their types; a child that boots has  *)
(* not begun to bridge.                                                    *)
THEOREM LaunchTypeCorrect == LaunchSpec => []LaunchTypeOK
<1>1. LInv => LaunchTypeOK
  BY DEF LInv, IInv, LTypes, LaunchStates, ChildOK, LaunchTypeOK
<1> QED
  BY <1>1, InitLInv, NextLInv, PTL DEF LaunchSpec

(* No mission control is left running by a link or a job that ended, for   *)
(* any number of launchers and however their children behave.              *)
THEOREM NoOrphanHolds == LaunchSpec => []NoOrphan
<1>1. LInv => NoOrphan
  BY DEF LInv, ChildOK, NoOrphan, ChildRuns
<1> QED
  BY <1>1, InitLInv, NextLInv, PTL DEF LaunchSpec

-----------------------------------------------------------------------------
(* What a job leaves behind.                                               *)

(* The sockets that a job which is alone has unlinked stay away. *)
Unlinked ==
  \A c \in Launched :
    kind[c] = "job" /\ Alone(c) =>
      \A n \in 1 .. Len(Wanted[c]) :
        /\ JobSocket[Wanted[c][n]] = Arch[Wanted[c][n]]
        /\ \/ launcher[c] = "ended"
           \/ launcher[c] = "unlinking" /\ n < probe[c]
        => Arch[Wanted[c][n]] \notin files

JInv == LInv /\ Fresh /\ Unlinked

LEMMA IdleBefore ==
  ASSUME LTypes, [LaunchNext]_allVars, NEW d \in Launched, launcher'[d] = "idle"
  PROVE  launcher[d] = "idle"
<1>1. ASSUME NEW c \in Launched, NEW state \in LaunchStates \ {"idle"}, Goto(c, state)
      PROVE  launcher[d] = "idle"
  BY <1>1, GotoKeeps
<1>2. CASE UNCHANGED launcher
  BY <1>2
<1>3. ASSUME NEW c \in Launched,
             \/ SpawnChild(c) \/ LinkTimesOut(c) \/ LinkReady(c) \/ FinalPass(c)
             \/ LinkCtrlC(c) \/ LinkKilled(c) \/ JobEnds(c) \/ LinkDisconnects(c)
             \/ JobRemovesBuilder(c) \/ JobTerminates(c) \/ JobDone(c)
      PROVE  launcher[d] = "idle"
  BY <1>1, <1>3 DEF SpawnChild, LinkTimesOut, LinkReady, FinalPass, LinkCtrlC,
     LinkKilled, JobEnds, LinkDisconnects, JobRemovesBuilder, JobTerminates,
     JobDone, LaunchStates
<1>4. ASSUME NEW c \in Launched, StatusExits(c)
      PROVE  launcher[d] = "idle"
  BY <1>1, <1>4 DEF StatusExits, LaunchStates
<1>5. ASSUME NEW c \in Launched,
             \/ ProbeAlive(c) \/ ProbeDead(c) \/ ProbeMissed(c) \/ Deadline(c)
             \/ JobUnlinks(c) \/ Child(c)
      PROVE  UNCHANGED launcher
  BY <1>5 DEF ProbeAlive, ProbeDead, ProbeMissed, Deadline, JobUnlinks, Child,
     ChildStarts, ChildBails, ChildWorks, ChildCtrlC, ChildKilled, lvars
<1>6. ASSUME NEW c \in Controls \ Launched, ByHand(c)
      PROVE  UNCHANGED launcher
  BY <1>6 DEF ByHand, lvars
<1>7. CASE UNCHANGED allVars
  BY <1>7 DEF allVars, lvars
<1> QED
  BY <1>2, <1>3, <1>4, <1>5, <1>6, <1>7 DEF LaunchNext, Polling, TearDown

LEMMA NextFresh ==
  LInv /\ Fresh /\ [LaunchNext]_allVars =>
    /\ Fresh'
    /\ \A c \in Controls : runs'[c] = 0 => runs[c] = 0
<1> SUFFICES ASSUME LInv, Fresh, [LaunchNext]_allVars
             PROVE  /\ Fresh'
                    /\ \A c \in Controls : runs'[c] = 0 => runs[c] = 0
  OBVIOUS
<1>1. CASE UNCHANGED mains
  BY <1>1 DEF mains, Fresh
<1>2. ASSUME NEW d \in Controls,
             Start(d) \/ MainTask(d) \/ AcceptTasks(d) \/ CtrlC(d) \/ Kill(d)
      PROVE  Fresh' /\ \A c \in Controls : runs'[c] = 0 => runs[c] = 0
  BY <1>2, ProcessFresh DEF LInv
<1>3. ASSUME NEW d \in Launched, KillChild(d)
      PROVE  Fresh' /\ \A c \in Controls : runs'[c] = 0 => runs[c] = 0
  <2>1. d \in Controls
    BY LaunchedSets
  <2>2. CASE pc[d] = "down"
    BY <1>1, <1>3, <2>2 DEF KillChild, vars
  <2>3. CASE pc[d] # "down"
    BY <1>2, <1>3, <2>1, <2>3 DEF KillChild, Kill
  <2> QED
    BY <2>2, <2>3
<1>4. ASSUME NEW d \in Launched,
             \/ SpawnChild(d) \/ Polling(d) \/ Deadline(d)
             \/ LinkCtrlC(d) \/ LinkKilled(d) \/ JobEnds(d) \/ TearDown(d)
             \/ Child(d)
      PROVE  Fresh' /\ \A c \in Controls : runs'[c] = 0 => runs[c] = 0
  <2>1. d \in Controls
    BY LaunchedSets
  <2>2. CASE LinkTimesOut(d) \/ LinkDisconnects(d) \/ JobTerminates(d)
    BY <1>3, <2>2 DEF LinkTimesOut, LinkDisconnects, JobTerminates
  <2>3. CASE ChildStarts(d) \/ ChildWorks(d) \/ ChildCtrlC(d) \/ ChildKilled(d)
    BY <1>2, <2>1, <2>3 DEF ChildStarts, ChildWorks, ChildCtrlC, ChildKilled
  <2>4. CASE JobRemovesBuilder(d) \/ JobUnlinks(d) \/ JobDone(d) \/ ChildBails(d)
    BY <1>1, <2>4 DEF JobRemovesBuilder, JobUnlinks, JobDone, ChildBails, vars
  <2>5. CASE SpawnChild(d) \/ Deadline(d) \/ LinkCtrlC(d) \/ LinkKilled(d)
             \/ JobEnds(d)
    BY <1>1, <2>5 DEF SpawnChild, Deadline, LinkCtrlC, LinkKilled, JobEnds, vars
  <2>6. CASE ProbeAlive(d) \/ ProbeDead(d) \/ LinkReady(d) \/ FinalPass(d)
             \/ ProbeMissed(d) \/ StatusExits(d)
    BY <1>1, <2>6 DEF ProbeAlive, ProbeDead, LinkReady, FinalPass, ProbeMissed,
                      StatusExits, vars
  <2> QED
    BY <1>4, <2>2, <2>3, <2>4, <2>5, <2>6 DEF Polling, TearDown, Child
<1> QED
  BY <1>1, <1>2, <1>4 DEF LaunchNext, ByHand, allVars, vars

(* A launcher that is alone now was alone before. *)
LEMMA AloneBefore ==
  ASSUME LInv, Fresh, [LaunchNext]_allVars, NEW c \in Launched, Alone(c)'
  PROVE  Alone(c)
<1> SUFFICES ASSUME NEW d \in Controls \ {c}
             PROVE  runs[d] = 0 /\ (d \in Launched => launcher[d] = "idle")
  BY DEF Alone
<1>1. runs'[d] = 0 /\ (d \in Launched => launcher'[d] = "idle")
  BY DEF Alone
<1> QED
  BY <1>1, NextFresh, IdleBefore DEF LInv

(* Beside a launcher that stays alone, nobody else takes a step. *)
LEMMA OnlyOwnSteps ==
  ASSUME LInv, Fresh, LaunchNext, NEW c \in Launched, Alone(c)'
  PROVE  \/ SpawnChild(c) \/ Polling(c) \/ Deadline(c)
         \/ LinkCtrlC(c) \/ LinkKilled(c) \/ JobEnds(c) \/ TearDown(c)
         \/ Child(c)
<1>1. \A d \in Controls \ {c} :
        /\ runs[d] = 0 /\ runs'[d] = 0 /\ pc[d] = "down"
        /\ d \in Launched =>
             launcher[d] = "idle" /\ launcher'[d] = "idle" /\ ~boot[d]
  BY AloneBefore DEF Alone, Fresh, LInv, ChildOK
<1>2. ASSUME NEW d \in Controls \ {c},
             Start(d) \/ MainTask(d) \/ AcceptTasks(d) \/ CtrlC(d) \/ Kill(d)
      PROVE  FALSE
  BY <1>1, <1>2, ProcessFresh DEF LInv
<1>3. ASSUME NEW d \in Launched \ {c},
             \/ SpawnChild(d) \/ Polling(d) \/ Deadline(d)
             \/ LinkCtrlC(d) \/ LinkKilled(d) \/ JobEnds(d) \/ TearDown(d)
             \/ Child(d)
      PROVE  FALSE
  <2>1. d \in Controls \ {c}
    BY LaunchedSets
  <2>2. CASE Child(d)
    BY <1>1, <1>2, <2>1, <2>2
       DEF Child, ChildStarts, ChildBails, ChildWorks, ChildCtrlC, ChildKilled
  <2>3. CASE SpawnChild(d)
    <3>1. launcher'[d] = "polling"
      BY <2>3, GotoKeeps DEF SpawnChild, LaunchStates, LInv
    <3> QED
      BY <1>1, <2>1, <3>1
  <2>4. CASE Polling(d) \/ Deadline(d) \/ LinkCtrlC(d) \/ LinkKilled(d)
             \/ JobEnds(d) \/ TearDown(d)
    <3>1. launcher[d] # "idle"
      BY <2>4 DEF Polling, ProbeAlive, ProbeDead, LinkTimesOut, LinkReady,
         FinalPass, ProbeMissed, StatusExits, Deadline, LinkCtrlC, LinkKilled,
         JobEnds, TearDown, LinkDisconnects, JobRemovesBuilder, JobTerminates,
         JobUnlinks, JobDone
    <3> QED
      BY <1>1, <2>1, <3>1
  <2> QED
    BY <1>3, <2>2, <2>3, <2>4
<1>4. ASSUME NEW d \in Controls \ Launched, ByHand(d)
      PROVE  FALSE
  BY <1>2, <1>4 DEF ByHand
<1> QED
  BY <1>3, <1>4 DEF LaunchNext

LEMMA NextUnlinked == JInv /\ [LaunchNext]_allVars => Unlinked'
<1> SUFFICES ASSUME JInv, [LaunchNext]_allVars,
                    NEW c \in Launched, kind'[c] = "job", Alone(c)',
                    NEW n \in 1 .. Len(Wanted[c]),
                    JobSocket[Wanted[c][n]] = Arch[Wanted[c][n]],
                    \/ launcher'[c] = "ended"
                    \/ launcher'[c] = "unlinking" /\ n < probe'[c]
             PROVE  Arch[Wanted[c][n]] \notin files'
  BY DEF Unlinked
<1> USE DEF JInv
<1>1. Alone(c)
  BY AloneBefore
<1>2. /\ Len(Wanted[c]) \in Nat /\ probe[c] \in Nat \ {0}
      /\ c \in Controls /\ LInv /\ LTypes
  BY LaunchedSets DEF LInv, LTypes
<1>3. ASSUME kind[c] = "job",
             \/ launcher[c] = "ended"
             \/ launcher[c] = "unlinking" /\ n < probe[c],
             files' \subseteq files
      PROVE  Arch[Wanted[c][n]] \notin files'
  BY <1>1, <1>3 DEF Unlinked
<1>4. CASE UNCHANGED allVars
  <2>1. UNCHANGED <<files, kind, launcher, probe>>
    BY <1>4 DEF allVars, vars, sockets, lvars, progress
  <2> QED
    BY <1>3, <2>1
<1>5. CASE Child(c)
  <2>1. launcher[c] \in {"ended", "unlinking"}
    BY <1>5 DEF Child, ChildStarts, ChildBails, ChildWorks, ChildCtrlC,
                ChildKilled, lvars
  <2>2. pc[c] = "down" /\ ~boot[c]
    BY <2>1 DEF LInv, ChildOK
  <2> QED
    BY <1>2, <1>5, <2>2, DownStill
       DEF Child, ChildStarts, ChildBails, ChildWorks, ChildCtrlC, ChildKilled, LInv
<1>6. CASE JobUnlinks(c)
  <2>1. /\ kind[c] = "job" /\ launcher[c] = "unlinking"
        /\ probe'[c] = probe[c] + 1
        /\ files' = files \ {JobSocket[Wanted[c][probe[c]]]}
    BY <1>2, <1>6, DownStill
       DEF JobUnlinks, CleanupSocket, Platform, LTypes
  <2>2. launcher'[c] = "unlinking"
    BY <1>6, <2>1 DEF JobUnlinks
  <2>3. n < probe[c] \/ n = probe[c]
    BY <1>2, <2>1, <2>2
  <2> QED
    BY <1>3, <2>1, <2>3
<1>7. CASE JobDone(c)
  <2>1. /\ kind[c] = "job" /\ launcher[c] = "unlinking" /\ files' = files
        /\ probe[c] > Len(Wanted[c])
    BY <1>7 DEF JobDone, PassOver, vars, sockets
  <2> QED
    BY <1>2, <1>3, <2>1
<1>8. CASE JobTerminates(c)
  <2>1. launcher'[c] = "unlinking" /\ probe'[c] = 1
    BY <1>2, <1>8 DEF JobTerminates, Goto, LTypes
  <2> QED
    BY <2>1
<1>9. CASE LinkTimesOut(c) \/ LinkDisconnects(c)
  <2>1. kind[c] = "job"
    BY <1>9 DEF LinkTimesOut, LinkDisconnects
  <2> QED
    BY <1>9, <2>1 DEF LinkTimesOut, LinkDisconnects
<1>10. CASE \/ SpawnChild(c) \/ LinkReady(c) \/ FinalPass(c) \/ StatusExits(c)
            \/ LinkCtrlC(c) \/ LinkKilled(c) \/ JobEnds(c) \/ JobRemovesBuilder(c)
  <2>1. launcher'[c] \notin {"ended", "unlinking"}
    BY <1>2, <1>10 DEF SpawnChild, LinkReady, FinalPass, StatusExits, LinkCtrlC,
       LinkKilled, JobEnds, JobRemovesBuilder, Goto, LTypes
  <2> QED
    BY <2>1
<1>11. CASE ProbeAlive(c) \/ ProbeDead(c) \/ ProbeMissed(c) \/ Deadline(c)
  BY <1>11 DEF ProbeAlive, ProbeDead, ProbeMissed, Deadline
<1> QED
  BY <1>2, <1>4, <1>5, <1>6, <1>7, <1>8, <1>9, <1>10, <1>11, OnlyOwnSteps
     DEF Polling, TearDown

LEMMA InitJInv == LaunchInit => JInv
  BY InitLInv DEF LaunchInit, Init, JInv, Fresh, Unlinked

(* After a job that no other mission control ran beside, its mission       *)
(* control is gone and none of its sockets is there, for any platforms on  *)
(* whose paths the action and the program agree.                           *)
THEOREM JobCleansUpHolds == LaunchSpec => []JobCleansUp
<1>1. JInv /\ [LaunchNext]_allVars => JInv'
  BY NextLInv, NextFresh, NextUnlinked DEF JInv
<1>2. JInv => JobCleansUp
  <2> SUFFICES ASSUME JInv, NEW c \in Launched, kind[c] = "job",
                      launcher[c] = "ended", Alone(c)
               PROVE  /\ ~ChildRuns(c)
                      /\ \A n \in 1 .. Len(Wanted[c]) :
                           JobSocket[Wanted[c][n]] = Arch[Wanted[c][n]]
                             => Arch[Wanted[c][n]] \notin files
    BY DEF JobCleansUp
  <2>1. ~ChildRuns(c)
    BY DEF JInv, LInv, ChildOK, ChildRuns
  <2> QED
    BY <2>1 DEF JInv, Unlinked
<1> QED
  BY <1>1, <1>2, InitJInv, PTL DEF LaunchSpec

-----------------------------------------------------------------------------
(* What a launcher may rely on once it says it is linked.                  *)

(* The launcher has found the socket of its n-th platform alive. *)
Probed(c, n) ==
  \/ launcher[c] = "polling" /\ n < probe[c]
  \/ launcher[c] = "checking" /\ n < probe[c] /\ ~missed[c]
  \/ launcher[c] = "linked"

Bridged(c, n) ==
  \E i \in 1 .. Len(task[c]) :
    Path(c, i) = Arch[Wanted[c][n]] /\ <<c, i>> \in open

Serving(c) == boot[c] \/ pc[c] \in {"adding", "buildx", "running"}

AInv == \A c \in Launched : Alone(c) => SInv(c, Paths)

WInv ==
  \A c \in Launched :
    Alone(c) /\ Serving(c) =>
      \A n \in 1 .. Len(Wanted[c]) : Probed(c, n) => Bridged(c, n)

KInv == LInv /\ Fresh /\ PlanOK /\ AInv /\ WInv

OwnChildPaths == \A c \in Launched : OwnPaths(c, Paths)

(* The machine belongs to a launcher's child while the launcher is alone. *)
LEMMA OwnMachine ==
  ASSUME LInv, Fresh, NEW c \in Launched, Alone(c)
  PROVE  /\ \A d \in Controls \ {c} : task[d] = <<>>
         /\ \A t \in open : t[1] = c /\ t = <<c, t[2]>>
         /\ pc[c] = "down" => open = {}
<1>1. \A d \in Controls : pc[d] = "down" => task[d] = <<>>
  BY DEF LInv, IInv, DownEmpty
<1>2. \A d \in Controls \ {c} : task[d] = <<>>
  BY <1>1 DEF Alone, Fresh
<1>3. \A t \in open : /\ t[1] \in Controls /\ t = <<t[1], t[2]>>
                      /\ t[2] \in 1 .. Len(task[t[1]])
  BY DEF LInv, IInv, TypeOK
<1>4. c \in Controls
  BY LaunchedSets
<1> QED
  BY <1>1, <1>2, <1>3, <1>4

LEMMA LaunchPlanOK == IInv /\ PlanOK /\ [LaunchNext]_allVars => PlanOK'
<1> SUFFICES ASSUME IInv, PlanOK, [LaunchNext]_allVars PROVE PlanOK'
  OBVIOUS
<1>1. CASE UNCHANGED plan
  BY <1>1 DEF PlanOK
<1>2. ASSUME NEW c \in Controls,
             Start(c) \/ MainTask(c) \/ AcceptTasks(c) \/ CtrlC(c) \/ Kill(c)
      PROVE  PlanOK'
  BY <1>2, NextPlanOK DEF Next
<1>3. ASSUME NEW c \in Launched, KillChild(c)
      PROVE  PlanOK'
  BY <1>1, <1>3 DEF KillChild, Die, PlanOK, IInv, TypeOK, vars, mains
<1>4. ASSUME NEW c \in Launched, Child(c)
      PROVE  PlanOK'
  BY <1>1, <1>2, <1>4, LaunchedSets
     DEF Child, ChildStarts, ChildBails, ChildWorks, ChildCtrlC, ChildKilled, vars, mains
<1>5. ASSUME NEW c \in Launched, TearDown(c)
      PROVE  PlanOK'
  BY <1>1, <1>3, <1>5 DEF TearDown, LinkDisconnects, JobRemovesBuilder, JobTerminates,
     JobUnlinks, JobDone, vars, mains
<1>6. ASSUME NEW c \in Launched, Polling(c)
      PROVE  PlanOK'
  BY <1>1, <1>3, <1>6 DEF Polling, ProbeAlive, ProbeDead, LinkTimesOut, LinkReady,
     FinalPass, ProbeMissed, StatusExits, vars, mains
<1>7. ASSUME NEW c \in Launched,
             SpawnChild(c) \/ Deadline(c) \/ LinkCtrlC(c) \/ LinkKilled(c) \/ JobEnds(c)
      PROVE  PlanOK'
  BY <1>1, <1>7 DEF SpawnChild, Deadline, LinkCtrlC, LinkKilled, JobEnds, vars, mains
<1> QED
  BY <1>1, <1>2, <1>4, <1>5, <1>6, <1>7 DEF LaunchNext, ByHand, allVars, vars, mains

LEMMA KillChildSInv ==
  ASSUME LInv, NEW c \in Launched, SInv(c, Paths), KillChild(c)
  PROVE  SInv(c, Paths)'
<1>1. c \in Controls
  BY LaunchedSets
<1>2. CASE UNCHANGED vars
  BY <1>1, <1>2, SInvElse DEF vars, mains, sockets
<1>3. CASE Die(c)
  BY <1>1, <1>3, SInvDie DEF LInv
<1> QED
  BY <1>2, <1>3 DEF KillChild

LEMMA NextAInv ==
  ASSUME OwnChildPaths, KInv, [LaunchNext]_allVars PROVE AInv'
<1> SUFFICES ASSUME NEW c \in Launched, Alone(c)' PROVE SInv(c, Paths)'
  BY DEF AInv
<1> USE DEF KInv
<1>1. Alone(c) /\ SInv(c, Paths) /\ IInv /\ c \in Controls /\ OwnPaths(c, Paths)
  BY AloneBefore, LaunchedSets DEF AInv, LInv, OwnChildPaths
<1>2. CASE UNCHANGED vars
  BY <1>1, <1>2, SInvElse DEF vars, mains, sockets
<1>3. CASE Start(c) \/ MainTask(c) \/ AcceptTasks(c) \/ CtrlC(c) \/ Kill(c)
  BY <1>1, <1>3, OwnStep
<1>4. CASE Child(c)
  BY <1>2, <1>3, <1>4
     DEF Child, ChildStarts, ChildBails, ChildWorks, ChildCtrlC, ChildKilled
<1>5. CASE LinkTimesOut(c) \/ LinkDisconnects(c) \/ JobTerminates(c)
  BY <1>1, <1>5, KillChildSInv DEF LinkTimesOut, LinkDisconnects, JobTerminates
<1>6. CASE JobUnlinks(c)
  <2>1. Len(task'[c]) = 0
    BY <1>1, <1>6 DEF JobUnlinks, LInv, ChildOK, IInv, DownEmpty
  <2> QED
    BY <2>1 DEF SInv
<1>7. CASE JobRemovesBuilder(c)
  BY <1>1, <1>7, SInvElse DEF JobRemovesBuilder, mains, sockets
<1>8. CASE ProbeAlive(c) \/ ProbeDead(c) \/ LinkReady(c) \/ FinalPass(c)
           \/ ProbeMissed(c) \/ StatusExits(c)
  BY <1>2, <1>8 DEF ProbeAlive, ProbeDead, LinkReady, FinalPass, ProbeMissed,
                    StatusExits
<1>9. CASE SpawnChild(c) \/ Deadline(c) \/ LinkCtrlC(c) \/ LinkKilled(c)
           \/ JobEnds(c) \/ JobDone(c)
  BY <1>2, <1>9 DEF SpawnChild, Deadline, LinkCtrlC, LinkKilled, JobEnds, JobDone
<1>10. CASE UNCHANGED allVars
  BY <1>2, <1>10 DEF allVars
<1> QED
  BY <1>4, <1>5, <1>6, <1>7, <1>8, <1>9, <1>10, OnlyOwnSteps DEF Polling, TearDown

(* A listening task goes on until its process is told to stop or dies. *)
LEMMA ListeningStays ==
  ASSUME IInv, NEW c \in Controls,
         MainTask(c) \/ AcceptTasks(c) \/ CtrlC(c) \/ Kill(c),
         pc'[c] \in {"adding", "buildx", "running"},
         NEW i \in 1 .. Len(task[c]), task[c][i] = "listening"
  PROVE  /\ pc[c] \in {"adding", "buildx", "running"}
         /\ i \in 1 .. Len(task'[c])
         /\ task'[c][i] = "listening"
         /\ Path(c, i)' = Path(c, i)
<1>1. /\ pc \in [Controls -> {"down", "adding", "buildx", "running",
                              "cleaning", "exiting"}]
      /\ task \in [Controls -> Seq(TaskStates)]
      /\ task[c] \in Seq(TaskStates) /\ Len(task[c]) \in Nat
  BY DEF IInv, TypeOK, TaskStates
<1>2. CASE AcceptTasks(c)
  <2>1. UNCHANGED mains
    BY <1>2 DEF AcceptTasks, AcceptTask, TaskUnlink, TaskBind, TaskBindFails,
                TaskCleanup, TaskCancelled
  <2>2. ~Aborted(c)
    BY <2>1 DEF Aborted, mains
  <2>3. PICK j \in 1 .. Len(task[c]), state \in TaskStates :
          SetTask(c, j, state) /\ j # i
    BY <1>2, <2>2 DEF AcceptTasks, AcceptTask, TaskUnlink, TaskBind,
       TaskBindFails, TaskCleanup, TaskCancelled, TaskStates
  <2>4. task'[c] = [task[c] EXCEPT ![j] = state]
    BY <1>1, <2>3 DEF SetTask
  <2>5. Len(task'[c]) = Len(task[c]) /\ task'[c][i] = task[c][i]
    BY <1>1, <2>3, <2>4
  <2> QED
    BY <2>1, <2>5 DEF mains, Path
<1>3. CASE AddBridge(c)
  <2>1. task'[c] = Append(task[c], "spawned")
    BY <1>1, <1>3 DEF AddBridge
  <2>2. Len(task'[c]) = Len(task[c]) + 1 /\ task'[c][i] = task[c][i]
    BY <1>1, <2>1
  <2> QED
    BY <1>1, <1>3, <2>2 DEF AddBridge, mains, Path
<1>4. CASE AllAdded(c) \/ Inspect(c) \/ Create(c) \/ AllCreated(c)
  BY <1>1, <1>4 DEF AllAdded, Inspect, Create, AllCreated, Path
<1>5. CASE CleanSocket(c) \/ RemoveBuilder(c) \/ CtrlC(c)
  BY <1>1, <1>5 DEF CleanSocket, RemoveBuilder, CtrlC
<1>6. CASE Exit(c) \/ Kill(c)
  BY <1>1, <1>6 DEF Exit, Kill, Die
<1> QED
  BY <1>2, <1>3, <1>4, <1>5, <1>6 DEF MainTask

(* A platform stays bridged while tasks, plans and sockets do not change. *)
LEMMA SameServed ==
  ASSUME NEW c \in Launched, NEW n,
         UNCHANGED <<task, plan, open>>, Bridged(c, n)
  PROVE  Bridged(c, n)'
  BY DEF Bridged, Path

LEMMA NextWInv ==
  ASSUME OwnChildPaths, KInv, [LaunchNext]_allVars PROVE WInv'
<1> SUFFICES ASSUME NEW c \in Launched, Alone(c)', Serving(c)',
                    NEW n \in 1 .. Len(Wanted[c]), Probed(c, n)'
             PROVE  Bridged(c, n)'
  BY DEF WInv
<1> USE DEF KInv
<1>1. /\ Alone(c) /\ LInv /\ IInv /\ LTypes /\ c \in Controls
      /\ probe[c] \in Nat \ {0} /\ Len(Wanted[c]) \in Nat
  BY AloneBefore, LaunchedSets DEF LInv, LTypes
<1>2. SInv(c, Paths)'
  BY NextAInv DEF AInv
<1>3. ASSUME UNCHANGED <<vars, boot>>, Probed(c, n)
      PROVE  Bridged(c, n)'
  <2>1. Bridged(c, n)
    BY <1>1, <1>3 DEF WInv, Serving, vars, mains
  <2> QED
    BY <1>3, <2>1, SameServed DEF vars, mains, sockets
<1>4. CASE UNCHANGED allVars
  <2>1. Probed(c, n)
    BY <1>4 DEF allVars, lvars, progress, Probed
  <2> QED
    BY <1>3, <1>4, <2>1 DEF allVars, lvars
<1>5. CASE Child(c)
  <2>1. UNCHANGED <<launcher, probe, missed>>
    BY <1>5 DEF Child, ChildStarts, ChildBails, ChildWorks, ChildCtrlC,
                ChildKilled, lvars, progress
  <2>2. Probed(c, n)
    BY <2>1 DEF Probed
  <2>3. Serving(c) => Bridged(c, n)
    BY <1>1, <2>2 DEF WInv
  <2>4. CASE ChildStarts(c)
    <3>1. boot[c] /\ open = {}
      BY <1>1, <2>4, OwnMachine DEF ChildStarts, Start
    <3> QED
      BY <2>3, <3>1 DEF Serving, Bridged
  <2>5. CASE ChildBails(c)
    <3>1. pc'[c] = "down" /\ ~boot'[c]
      BY <1>1, <2>5 DEF ChildBails, vars, mains, LInv, LTypes, ChildOK
    <3> QED
      BY <3>1 DEF Serving
  <2>6. CASE ChildWorks(c) \/ ChildCtrlC(c) \/ ChildKilled(c)
    <3>1. MainTask(c) \/ AcceptTasks(c) \/ CtrlC(c) \/ Kill(c)
      BY <2>6 DEF ChildWorks, ChildCtrlC, ChildKilled
    <3>2. pc[c] # "down" /\ ~boot[c] /\ boot'[c] = boot[c]
      BY <1>1, <2>6, <3>1, DownStill
         DEF ChildWorks, ChildCtrlC, ChildKilled, lvars, LInv, ChildOK
    <3>3. pc'[c] \in {"adding", "buildx", "running"}
      BY <3>2 DEF Serving
    <3>4. pc[c] \in {"adding", "buildx", "running"}
      BY <1>1, <3>1, <3>2, <3>3
         DEF MainTask, AddBridge, AllAdded, Inspect, Create, AllCreated, CleanSocket,
         RemoveBuilder, Exit, Die, CtrlC, Kill, AcceptTasks, AcceptTask, TaskUnlink,
         TaskBind, TaskBindFails, TaskCleanup, TaskCancelled, mains, IInv, TypeOK
    <3>5. PICK i \in 1 .. Len(task[c]) :
            Path(c, i) = Arch[Wanted[c][n]] /\ <<c, i>> \in open
      BY <2>3, <3>4 DEF Serving, Bridged
    <3>6. task[c][i] = "listening"
      BY <1>1, <3>5 DEF IInv, TypeOK
    <3>7. /\ i \in 1 .. Len(task'[c])
          /\ task'[c][i] = "listening"
          /\ Path(c, i)' = Path(c, i)
      BY <1>1, <3>1, <3>3, <3>6, ListeningStays
    <3>8. TaskOK(c, i)'
      <4>1. Path(c, i) \in Paths
        BY <1>1, PathType DEF IInv
      <4> QED
        BY <1>2, <3>7, <4>1 DEF SInv
    <3>9. <<c, i>> \in open'
      BY <3>3, <3>7, <3>8 DEF TaskOK, Aborted
    <3> QED
      BY <3>5, <3>7, <3>9 DEF Bridged
  <2> QED
    BY <1>5, <2>4, <2>5, <2>6 DEF Child
<1>6. CASE ProbeAlive(c)
  <2>1. /\ probe'[c] = probe[c] + 1
        /\ UNCHANGED <<vars, boot, launcher, missed>>
        /\ launcher[c] \in {"polling", "checking"}
    BY <1>1, <1>6 DEF ProbeAlive, LTypes
  <2>2. n < probe[c] \/ n = probe[c]
    BY <1>1, <2>1 DEF Probed
  <2>3. CASE n < probe[c]
    <3>1. Probed(c, n)
      BY <2>1, <2>3 DEF Probed
    <3> QED
      BY <1>3, <2>1, <3>1
  <2>4. CASE n = probe[c]
    <3>1. PICK t \in open : Path(t[1], t[2]) = Arch[Wanted[c][n]]
      BY <1>6, <2>4 DEF ProbeAlive, Alive, Platform
    <3>2. t[1] = c /\ t = <<c, t[2]>>
      BY <1>1, <3>1, OwnMachine
    <3>3. t[2] \in 1 .. Len(task[c])
      BY <1>1, <3>1, <3>2 DEF IInv, TypeOK
    <3>4. Bridged(c, n)
      BY <3>1, <3>2, <3>3 DEF Bridged
    <3> QED
      BY <2>1, <3>4, SameServed DEF vars, mains, sockets
  <2> QED
    BY <2>2, <2>3, <2>4
<1>7. CASE Deadline(c)
  <2>1. Probed(c, n) /\ UNCHANGED <<vars, boot>>
    BY <1>7 DEF Deadline, Probed
  <2> QED
    BY <1>3, <2>1
<1>8. CASE LinkReady(c) \/ StatusExits(c)
  <2>1. /\ launcher[c] \in {"polling", "checking"} /\ PassOver(c)
        /\ launcher[c] = "checking" => ~missed[c]
    <3>1. CASE LinkReady(c)
      BY <3>1 DEF LinkReady
    <3>2. CASE StatusExits(c)
      <4>1. missed[c] => launcher'[c] = "failed"
        BY <1>1, <3>2 DEF StatusExits, Goto, LTypes
      <4> QED
        BY <3>2, <4>1 DEF StatusExits, Probed
    <3> QED
      BY <1>8, <3>1, <3>2
  <2>2. Probed(c, n)
    BY <1>1, <2>1 DEF Probed, PassOver
  <2> QED
    BY <1>3, <1>8, <2>2 DEF LinkReady, StatusExits
<1>9. CASE SpawnChild(c) \/ FinalPass(c)
  <2>1. probe'[c] = 1 /\ launcher'[c] \in {"polling", "checking"}
    BY <1>1, <1>9 DEF SpawnChild, FinalPass, Goto, LTypes
  <2> QED
    BY <1>1, <2>1 DEF Probed
<1>10. CASE ProbeDead(c)
  <2>1. probe'[c] = 1 /\ launcher'[c] = "polling"
    BY <1>1, <1>10 DEF ProbeDead, LTypes
  <2> QED
    BY <1>1, <2>1 DEF Probed
<1>11. CASE ProbeMissed(c)
  <2>1. missed'[c] /\ launcher'[c] = "checking"
    BY <1>1, <1>11 DEF ProbeMissed, LTypes
  <2> QED
    BY <2>1 DEF Probed
<1>12. CASE LinkTimesOut(c) \/ LinkDisconnects(c) \/ LinkCtrlC(c) \/ LinkKilled(c)
            \/ JobEnds(c) \/ JobRemovesBuilder(c) \/ JobTerminates(c) \/ JobDone(c)
  <2>1. launcher'[c] \in {"ended", "leaving", "killed", "removing", "terminating",
                          "unlinking"}
    BY <1>1, <1>12 DEF LinkTimesOut, LinkDisconnects, LinkCtrlC, LinkKilled, JobEnds,
       JobRemovesBuilder, JobTerminates, JobDone, Goto, LTypes
  <2> QED
    BY <2>1 DEF Probed
<1>13. CASE JobUnlinks(c)
  BY <1>13 DEF JobUnlinks, Probed
<1> QED
  BY <1>4, <1>5, <1>6, <1>7, <1>8, <1>9, <1>10, <1>11, <1>12, <1>13, OnlyOwnSteps
     DEF Polling, TearDown

(* When no two platforms of its child share a socket, a launcher that was  *)
(* alone says linked only while its own child bridges every platform it    *)
(* asked for, or has been stopped; the other processes may want any path.  *)
THEOREM LinkedServesHolds ==
  ASSUME OwnChildPaths PROVE LaunchSpec => []LinkedServes
<1>1. LaunchInit => KInv
  <2> SUFFICES ASSUME LaunchInit PROVE KInv
    OBVIOUS
  <2>1. \A c \in Launched : /\ launcher[c] = "idle" /\ ~boot[c]
    BY DEF LaunchInit
  <2>2. Fresh /\ PlanOK /\ \A c \in Launched : SInv(c, Paths)
    BY LaunchedSets DEF LaunchInit, Init, Fresh, PlanOK, SInv
  <2> QED
    BY <2>1, <2>2, InitLInv DEF KInv, AInv, WInv, Probed
<1>2. KInv /\ [LaunchNext]_allVars => KInv'
  BY NextLInv, NextFresh, LaunchPlanOK, NextAInv, NextWInv DEF KInv, LInv
<1>3. KInv => LinkedServes
  BY DEF KInv, WInv, Serving, Probed, Bridged, LinkedServes
<1> QED
  BY <1>1, <1>2, <1>3, PTL DEF LaunchSpec

-----------------------------------------------------------------------------
(* Launchers, refined away: to the machine they are mission controls that  *)
(* are started, stopped and killed, and the cleanups of jobs.              *)

(* Only a job tears down. *)
KindOK ==
  \A c \in Launched :
    launcher[c] \in {"removing", "terminating", "unlinking"} => kind[c] = "job"

LEMMA NextKindOK == LTypes /\ KindOK /\ [LaunchNext]_allVars => KindOK'
<1> SUFFICES ASSUME LTypes, KindOK, [LaunchNext]_allVars PROVE KindOK'
  OBVIOUS
<1>1. CASE UNCHANGED <<launcher, kind>>
  BY <1>1 DEF KindOK
<1>2. ASSUME NEW c \in Launched, NEW state \in LaunchStates, Goto(c, state),
             UNCHANGED kind,
             state \in {"removing", "terminating", "unlinking"} => kind[c] = "job"
      PROVE  KindOK'
  BY <1>2, GotoKeeps DEF KindOK
<1>3. ASSUME NEW c \in Launched, SpawnChild(c)
      PROVE  KindOK'
  <2>1. \A d \in Launched : launcher'[d] = IF d = c THEN "polling" ELSE launcher[d]
    BY <1>3, GotoKeeps DEF SpawnChild, LaunchStates
  <2>2. \A d \in Launched \ {c} : kind'[d] = kind[d]
    BY <1>3 DEF SpawnChild, LTypes
  <2> QED
    BY <2>1, <2>2 DEF KindOK
<1>4. ASSUME NEW c \in Launched, Polling(c) \/ Deadline(c)
      PROVE  KindOK'
  <2>1. CASE ProbeAlive(c) \/ ProbeDead(c) \/ ProbeMissed(c) \/ Deadline(c)
    BY <1>1, <2>1 DEF ProbeAlive, ProbeDead, ProbeMissed, Deadline
  <2>2. CASE LinkTimesOut(c) \/ LinkReady(c) \/ FinalPass(c)
    BY <1>2, <2>2 DEF LinkTimesOut, LinkReady, FinalPass, LaunchStates
  <2>3. CASE StatusExits(c)
    BY <1>2, <2>3 DEF StatusExits, LaunchStates
  <2> QED
    BY <1>4, <2>1, <2>2, <2>3 DEF Polling
<1>5. ASSUME NEW c \in Launched, LinkCtrlC(c) \/ LinkKilled(c) \/ JobEnds(c)
      PROVE  KindOK'
  BY <1>2, <1>5 DEF LinkCtrlC, LinkKilled, JobEnds, LaunchStates
<1>6. ASSUME NEW c \in Launched, TearDown(c)
      PROVE  KindOK'
  <2>1. CASE LinkDisconnects(c) \/ JobDone(c)
    BY <1>2, <2>1 DEF LinkDisconnects, JobDone, LaunchStates
  <2>2. CASE JobRemovesBuilder(c) \/ JobTerminates(c)
    BY <1>2, <2>2 DEF JobRemovesBuilder, JobTerminates, LaunchStates, KindOK
  <2>3. CASE JobUnlinks(c)
    BY <1>1, <2>3 DEF JobUnlinks
  <2> QED
    BY <1>6, <2>1, <2>2, <2>3 DEF TearDown
<1>7. ASSUME NEW c \in Launched, Child(c)
      PROVE  KindOK'
  BY <1>1, <1>7 DEF Child, ChildStarts, ChildBails, ChildWorks, ChildCtrlC,
                    ChildKilled, lvars
<1> QED
  BY <1>1, <1>3, <1>4, <1>5, <1>6, <1>7 DEF LaunchNext, ByHand, allVars, lvars

JobStep ==
  \E c \in Launched : kind[c] = "job" /\ (JobRemovesBuilder(c) \/ JobUnlinks(c))

LEMMA LaunchStep ==
  ASSUME KindOK, [LaunchNext]_allVars PROVE [Next \/ JobStep]_vars
<1>1. CASE UNCHANGED vars
  BY <1>1
<1>2. ASSUME NEW c \in Controls,
             Start(c) \/ MainTask(c) \/ AcceptTasks(c) \/ CtrlC(c) \/ Kill(c)
      PROVE  Next
  BY <1>2 DEF Next
<1>3. ASSUME NEW c \in Launched, KillChild(c)
      PROVE  [Next]_vars
  BY <1>2, <1>3, LaunchedSets DEF KillChild, Kill
<1>4. ASSUME NEW c \in Launched, Child(c)
      PROVE  [Next]_vars
  BY <1>2, <1>4, LaunchedSets
     DEF Child, ChildStarts, ChildBails, ChildWorks, ChildCtrlC, ChildKilled
<1>5. ASSUME NEW c \in Launched, TearDown(c)
      PROVE  [Next \/ JobStep]_vars
  <2>1. CASE JobRemovesBuilder(c) \/ JobUnlinks(c)
    <3>1. kind[c] = "job"
      BY <2>1 DEF JobRemovesBuilder, JobUnlinks, KindOK
    <3> QED
      BY <2>1, <3>1 DEF JobStep
  <2>2. CASE LinkDisconnects(c) \/ JobTerminates(c) \/ JobDone(c)
    BY <1>3, <2>2 DEF LinkDisconnects, JobTerminates, JobDone
  <2> QED
    BY <1>5, <2>1, <2>2 DEF TearDown
<1>6. ASSUME NEW c \in Launched, Polling(c)
      PROVE  [Next]_vars
  BY <1>3, <1>6 DEF Polling, ProbeAlive, ProbeDead, LinkTimesOut, LinkReady,
     FinalPass, ProbeMissed, StatusExits
<1>7. ASSUME NEW c \in Launched,
             SpawnChild(c) \/ Deadline(c) \/ LinkCtrlC(c) \/ LinkKilled(c) \/ JobEnds(c)
      PROVE  UNCHANGED vars
  BY <1>7 DEF SpawnChild, Deadline, LinkCtrlC, LinkKilled, JobEnds
<1> QED
  BY <1>1, <1>2, <1>4, <1>5, <1>6, <1>7 DEF LaunchNext, ByHand, allVars

(* Whatever launchers, jobs and their children do, the machine takes only  *)
(* steps of module Bridges and the two cleanups of a job.                  *)
THEOREM MachineSteps == LaunchSpec => Init /\ [][Next \/ JobStep]_vars
<1>1. LaunchInit => Init /\ KindOK
  BY DEF LaunchInit, KindOK
<1>2. LInv /\ KindOK /\ [LaunchNext]_allVars => KindOK'
  BY NextKindOK DEF LInv
<1>3. KindOK /\ [LaunchNext]_allVars => [Next \/ JobStep]_vars
  BY LaunchStep
<1> QED
  BY <1>1, <1>2, <1>3, InitLInv, NextLInv, PTL DEF LaunchSpec

(* While all launchers are link commands, the machine is one of module     *)
(* Bridges, and all that is proved of that module holds of it.             *)
AllLinks == \A c \in Launched : kind[c] = "link"

THEOREM LinksImplementBridges == LaunchSpec /\ []AllLinks => Spec
<1>1. AllLinks /\ [Next \/ JobStep]_vars => [Next]_vars
  BY DEF AllLinks, JobStep
<1> QED
  BY <1>1, MachineSteps, PTL DEF Spec
-----------------------------------------------------------------------------
(* The sockets of a mission control, among launchers and jobs.             *)

(* By the time a job unlinks, its own child has gone. *)
LEMMA JobUnlinksSInv ==
  ASSUME LInv, PlanOK, NEW c \in Controls, SInv(c, Private(c)),
         NEW d \in Launched, JobUnlinks(d)
  PROVE  SInv(c, Private(c))'
<1>1. UNCHANGED <<pc, plan, task>> /\ CleanupSocket(JobSocket[Platform(d)])
  BY DEF JobUnlinks, mains
<1>2. CASE d = c
  <2>1. Len(task[c]) = 0
    BY <1>2 DEF JobUnlinks, LInv, ChildOK, IInv, DownEmpty
  <2> QED
    BY <1>1, <2>1 DEF SInv
<1>3. CASE d # c
  <2>1. probe[d] \in 1 .. Len(Wanted[d])
    <3>1. Len(Wanted[d]) \in Nat
      BY LaunchedSets
    <3> QED
      BY <3>1 DEF JobUnlinks, PassOver, LInv, LTypes
  <2>2. ASSUME NEW i \in 1 .. Len(task[c])
        PROVE  Path(c, i) \in Private(c) => Path(c, i) # JobSocket[Platform(d)]
    BY <1>3, <2>1 DEF Private, Platform
  <2> QED
    BY <1>1, <2>2, SInvElse DEF CleanupSocket, Path
<1> QED
  BY <1>2, <1>3

(* Whatever launchers, jobs and other mission controls do, and whoever     *)
(* races for other paths: a bridge of any mission control with a socket to *)
(* itself has it once its accept task has settled.                         *)
THEOREM CollisionsContainedHolds == LaunchSpec => []CollisionsContained
<1> DEFINE AllOK == \A c \in Controls : SInv(c, Private(c))
<1> DEFINE Inv == LInv /\ PlanOK /\ KindOK /\ AllOK
<1>1. LaunchInit => Inv
  <2>1. LaunchInit => PlanOK /\ KindOK /\ AllOK
    BY DEF LaunchInit, Init, PlanOK, KindOK, SInv
  <2> QED
    BY <2>1, InitLInv
<1>2. Inv /\ [LaunchNext]_allVars => Inv'
  <2> SUFFICES ASSUME Inv, [LaunchNext]_allVars PROVE Inv'
    OBVIOUS
  <2>1. LInv' /\ PlanOK' /\ KindOK'
    BY NextLInv, LaunchPlanOK, NextKindOK DEF LInv
  <2>2. ASSUME NEW c \in Controls
        PROVE  SInv(c, Private(c))'
    <3>1. OwnPaths(c, Private(c)) /\ Undisputed(c, Private(c))
      BY DEF OwnPaths, Undisputed, Private
    <3>2. CASE [Next]_vars
      BY <3>1, <3>2, NextSInv DEF LInv
    <3>3. ASSUME NEW d \in Launched, JobRemovesBuilder(d)
          PROVE  SInv(c, Private(c))'
      BY <3>3, SInvElse DEF JobRemovesBuilder, mains, sockets
    <3>4. ASSUME NEW d \in Launched, JobUnlinks(d)
          PROVE  SInv(c, Private(c))'
      BY <3>4, JobUnlinksSInv
    <3> QED
      BY <3>2, <3>3, <3>4, LaunchStep DEF JobStep
  <2> QED
    BY <2>1, <2>2
<1>3. Inv => CollisionsContained
  BY TasksServe DEF CollisionsContained, ServesAll, LInv
<1> QED
  BY <1>1, <1>2, <1>3, PTL DEF LaunchSpec
=============================================================================
