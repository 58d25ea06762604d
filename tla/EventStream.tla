----------------------------- MODULE EventStream -----------------------------
(***************************************************************************)
(* The document events of one command: wait_for_sync of mission control    *)
(* and of fleet on the subscription of import_and_subscribe, and mission   *)
(* control's subscription task, which gets what wait_for_sync returns.     *)
(*                                                                         *)
(* Events are numbered in the order in which iroh-docs (external) emits    *)
(* them; what a process keeps of one is its number.  Any order of kinds is *)
(* possible, the stream may fail in between, and it may end.               *)
(***************************************************************************)
EXTENDS Naturals, Sequences

CONSTANTS
  Roles,       \* the commands considered: "mission control", "fleet"
  MaxEvents    \* bound: events of a run

ASSUME RoleNames == Roles \subseteq {"mission control", "fleet"}
ASSUME EventBound == MaxEvents \in Nat

VARIABLES
  role,        \* the command
  pc,          \* where its main task stands
  emitted,     \* the kinds of all events so far
  closed,      \* the document engine has gone, nothing more will come
  taken,       \* events read by wait_for_sync
  synced,      \* its got_sync_finished
  buffered,    \* the events it keeps
  monitor,     \* the subscription task
  stream,      \* what that task has yet to read
  reported     \* the satellite updates it logged, or warned about

source  == <<emitted, closed>>
waiting == <<taken, synced, buffered>>
task    == <<monitor, stream, reported>>
vars    == <<role, pc, source, waiting, task>>

(* update: InsertRemote of a satellite/ key; sync: SyncFinished, whatever  *)
(* its result; pending: PendingContentReady; error: an Err item; other:    *)
(* neighbours, other keys, ContentReady.                                   *)
Kind == {"update", "sync", "pending", "error", "other"}

(* The n-th event is the first to end a wait. *)
Ends(n) ==
  /\ emitted[n] = "pending"
  /\ \E i \in 1 .. n - 1 : emitted[i] = "sync"

-----------------------------------------------------------------------------
Init ==
  /\ role \in Roles
  /\ pc = "waiting"
  /\ emitted = <<>>
  /\ closed = FALSE
  /\ taken = 0
  /\ synced = FALSE
  /\ buffered = <<>>
  /\ monitor = "none"
  /\ stream = <<>>
  /\ reported = <<>>

(* iroh-docs (external). *)
Emit ==
  /\ ~closed
  /\ Len(emitted) < MaxEvents
  /\ \E k \in Kind : emitted' = Append(emitted, k)
  /\ UNCHANGED <<role, pc, closed, waiting, task>>

Close ==
  /\ ~closed
  /\ closed' = TRUE
  /\ UNCHANGED <<role, pc, emitted, waiting, task>>

-----------------------------------------------------------------------------
(* wait_for_sync: one iteration of its loop per action.                    *)

Reads(k) ==
  /\ pc = "waiting"
  /\ taken < Len(emitted)
  /\ emitted[taken + 1] = k
  /\ taken' = taken + 1

(* Mission control keeps what it reads, fleet does not. *)
Keep ==
  buffered' = IF role = "fleet" THEN buffered ELSE Append(buffered, taken + 1)

Return == pc' = IF role = "fleet" THEN "listing" ELSE "bridging"

(* Mutant: an error ends the wait. *)
TakeErrorReturns ==
  /\ Reads("error")
  /\ Return
  /\ UNCHANGED <<role, source, synced, buffered, task>>

(* An error is logged and skipped. *)
TakeError ==
  /\ Reads("error")
  /\ UNCHANGED <<role, pc, source, synced, buffered, task>>

(* Mutant: only what follows SyncFinished is kept. *)
TakeOtherLate ==
  /\ \E k \in {"update", "other"} : Reads(k)
  /\ IF synced THEN Keep ELSE UNCHANGED buffered
  /\ UNCHANGED <<role, pc, source, synced, task>>

TakeOther ==
  /\ \E k \in {"update", "other"} : Reads(k)
  /\ Keep
  /\ UNCHANGED <<role, pc, source, synced, task>>

TakeSync ==
  /\ Reads("sync")
  /\ Keep
  /\ synced' = TRUE
  /\ UNCHANGED <<role, pc, source, task>>

(* PendingContentReady before SyncFinished is an event like any other. *)
TakePending ==
  /\ Reads("pending")
  /\ ~synced
  /\ Keep
  /\ UNCHANGED <<role, pc, source, synced, task>>

(* Mutant: a second PendingContentReady is awaited. *)
TakePendingContinues ==
  /\ Reads("pending")
  /\ synced
  /\ Keep
  /\ synced' = FALSE
  /\ UNCHANGED <<role, pc, source, task>>

(* After SyncFinished it ends the wait. *)
TakePendingReturns ==
  /\ Reads("pending")
  /\ synced
  /\ Keep
  /\ Return
  /\ UNCHANGED <<role, source, synced, task>>

(* The end of the stream does so too, with a warning only. *)
StreamEnds ==
  /\ pc = "waiting"
  /\ closed
  /\ taken = Len(emitted)
  /\ Return
  /\ UNCHANGED <<role, source, waiting, task>>

WaitForSync ==
  \/ TakeError \/ TakeOther \/ TakeSync \/ TakePending \/ TakePendingReturns
  \/ StreamEnds

-----------------------------------------------------------------------------
(* The rest of the commands.                                               *)

(* fleet: discover_satellites, print, shut the router down. *)
List ==
  /\ pc = "listing"
  /\ pc' = "stopped"
  /\ UNCHANGED <<role, source, waiting, task>>

(* Mission control: discovery fails or nothing could be bridged. *)
Bail ==
  /\ pc = "bridging"
  /\ pc' = "stopped"
  /\ UNCHANGED <<role, source, waiting, task>>

(* Its bridges and builder are set up, and the task is spawned with the    *)
(* stream that wait_for_sync returned: the events it kept, and no more.    *)
SpawnMonitor ==
  /\ pc = "bridging"
  /\ pc' = "monitoring"
  /\ monitor' = "idle"
  /\ stream' = buffered
  /\ UNCHANGED <<role, source, waiting, reported>>

MonitorSkip ==
  /\ monitor = "idle"
  /\ stream # <<>>
  /\ emitted[Head(stream)] # "update"
  /\ stream' = Tail(stream)
  /\ UNCHANGED <<role, pc, source, waiting, monitor, reported>>

(* read_entry_blob is awaited. *)
MonitorRead ==
  /\ monitor = "idle"
  /\ stream # <<>>
  /\ emitted[Head(stream)] = "update"
  /\ monitor' = "reading"
  /\ UNCHANGED <<role, pc, source, waiting, stream, reported>>

(* Mutant: the event stays at the head of the stream. *)
MonitorReportAgain ==
  /\ monitor = "reading"
  /\ Len(reported) <= MaxEvents
  /\ monitor' = "idle"
  /\ reported' = Append(reported, Head(stream))
  /\ UNCHANGED <<role, pc, source, waiting, stream>>

(* The entry is logged; or a warning that it cannot be read or parsed. *)
MonitorReport ==
  /\ monitor = "reading"
  /\ monitor' = "idle"
  /\ reported' = Append(reported, Head(stream))
  /\ stream' = Tail(stream)
  /\ UNCHANGED <<role, pc, source, waiting>>

(* Mutant: an update that cannot be read ends the task. *)
MonitorEndsEarly ==
  /\ monitor \in {"idle", "reading"}
  /\ monitor' = "ended"
  /\ UNCHANGED <<role, pc, source, waiting, stream, reported>>

MonitorEnds ==
  /\ monitor = "idle"
  /\ stream = <<>>
  /\ monitor' = "ended"
  /\ UNCHANGED <<role, pc, source, waiting, stream, reported>>

Monitor == MonitorSkip \/ MonitorRead \/ MonitorReport \/ MonitorEnds

(* event_handle.abort(), and the rest of the shutdown. *)
CtrlC ==
  /\ pc = "monitoring"
  /\ pc' = "stopped"
  /\ monitor' = IF monitor = "ended" THEN monitor ELSE "aborted"
  /\ UNCHANGED <<role, source, waiting, stream, reported>>

(* A signal before the handler is there, or an error. *)
Kill ==
  /\ pc \notin {"stopped", "killed"}
  /\ pc' = "killed"
  /\ monitor' = IF monitor \in {"none", "ended"} THEN monitor ELSE "aborted"
  /\ UNCHANGED <<role, source, waiting, stream, reported>>

-----------------------------------------------------------------------------
Next ==
  \/ Emit \/ Close
  \/ WaitForSync \/ List \/ Bail \/ SpawnMonitor
  \/ Monitor
  \/ CtrlC \/ Kill

Spec == Init /\ [][Next]_vars

(* The runtime polls both tasks, and bridging comes to an end.  Nothing is *)
(* expected of the document.                                               *)
FairSpec ==
  /\ Spec
  /\ WF_vars(WaitForSync)
  /\ WF_vars(List \/ Bail \/ SpawnMonitor)
  /\ WF_vars(Monitor)

-----------------------------------------------------------------------------
(* Properties.                                                             *)

(* The types of the events and of what both tasks hold of them. *)
TypeOK ==
  /\ role \in Roles
  /\ pc \in {"waiting", "listing", "bridging", "monitoring", "stopped",
             "killed"}
  /\ emitted \in Seq(Kind)
  /\ Len(emitted) <= MaxEvents
  /\ closed \in BOOLEAN
  /\ taken \in 0 .. Len(emitted)
  /\ synced \in BOOLEAN
  /\ buffered \in Seq(1 .. taken)
  /\ monitor \in {"none", "idle", "reading", "ended", "aborted"}
  /\ stream \in Seq(1 .. taken)
  /\ reported \in Seq(1 .. taken)
  /\ Len(reported) <= taken
  /\ monitor = "reading" => stream # <<>>

(* Doc comment of wait_for_sync, "We wait for both SyncFinished and        *)
(* PendingContentReady": a command goes on to read the document exactly at *)
(* the first PendingContentReady that follows a SyncFinished, however the  *)
(* two were mixed with errors and each other, and otherwise only when the  *)
(* stream has ended without one.                                           *)
WaitExact ==
  /\ \A n \in 1 .. taken : Ends(n) => n = taken /\ pc # "waiting"
  /\ pc \in {"listing", "bridging", "monitoring", "stopped"} =>
       \/ taken > 0 /\ Ends(taken)
       \/ closed /\ taken = Len(emitted)

Reported(i) == \E n \in 1 .. Len(reported) : reported[n] = i

(* The updates that were emitted while the command waited are reported     *)
(* once each and in their order, none is passed over, and none is missing  *)
(* when the task ends.                                                     *)
ReplayExact ==
  /\ \A m, n \in 1 .. Len(reported) : m < n => reported[m] < reported[n]
  /\ \A i \in 1 .. taken :
       emitted[i] = "update" =>
         \/ Reported(i)
         \/ monitor # "ended" /\ \A n \in 1 .. Len(reported) : reported[n] < i
  /\ \A n \in 1 .. Len(reported) : emitted[reported[n]] = "update"

(* The wait has no deadline, and needs none once the document has synced   *)
(* and downloaded, or once its stream has ended.                           *)
WaitEnds ==
  (closed \/ \E n \in 1 .. Len(emitted) : Ends(n)) ~> pc # "waiting"

(* What was read while waiting is reported in the end by a mission control *)
(* that goes on.                                                           *)
SeenReported ==
  \A i \in 1 .. MaxEvents :
    (pc \in {"bridging", "monitoring"} /\ i <= taken /\ emitted[i] = "update")
      ~> (Reported(i) \/ pc \in {"stopped", "killed"})

(* ARCH.md, "Mission Control uses this subscription to detect when new     *)
(* Satellites appear or existing ones change status, without polling": an  *)
(* update that arrives while it runs is reported, unless it is stopped.    *)
UpdatesMonitored ==
  \A i \in 1 .. MaxEvents :
    (pc = "monitoring" /\ i <= Len(emitted) /\ emitted[i] = "update")
      ~> (Reported(i) \/ pc \in {"stopped", "killed"})
=============================================================================
