-------------------------- MODULE SatelliteProofs --------------------------
(***************************************************************************)
(* For any sets of peers and any bounds: the type invariant of the         *)
(* satellite process, that no announced peer is lost (NoLostPeer), that    *)
(* the gate lets in only announced peers (GateSound), that an admitted     *)
(* peer is never forgotten (OnceIn), that the process implements           *)
(* Registration (KeepsItsWord), and that no task leaks the lock.           *)
(***************************************************************************)
EXTENDS Satellite, SequenceTheorems, TLAPS

(* Everything allowed, or on its way to be, was announced in this run. *)
Announced ==
  /\ snapshot \subseteq docKeys
  /\ allowed \cup Inserting(queue) \cup inHand \subseteq docKeys \cup met

(* What the gate has let in is still allowed while connections arrive. *)
StillAllowed ==
  Accepting => \A p \in Peers : gate[p] = "accepted" => p \in allowed

(* The event task holds a peer only between taking it and inserting it,    *)
(* and does not exist before the process is running.                       *)
HandPhase ==
  /\ events \in {"off", "next"} => inHand = {}
  /\ main = "spawned" => docKeys \cup met = {}
  /\ events # "off" => main \in {"running", "interrupted", "offlined"}

IInv == TypeOK /\ NoLostPeer /\ Announced /\ StillAllowed /\ HandPhase

-----------------------------------------------------------------------------
(* Appending an event adds its peer unless the event is NeighborDown. *)
LEMMA InsertingAppend ==
  ASSUME NEW q \in Seq(Event), NEW e \in Event
  PROVE  Inserting(Append(q, e)) =
           Inserting(q) \cup IF e.kind = "NeighborDown" THEN {} ELSE {e.peer}
<1> DEFINE r == Append(q, e)
<1>1. Len(r) = Len(q) + 1 /\ r[Len(q) + 1] = e
  OBVIOUS
<1>2. \A i \in 1 .. Len(q) : r[i] = q[i]
  OBVIOUS
<1>3. Len(q) \in Nat
  OBVIOUS
<1> HIDE DEF r
<1>4. Inserting(r) \subseteq
        Inserting(q) \cup IF e.kind = "NeighborDown" THEN {} ELSE {e.peer}
  BY <1>1, <1>2, <1>3 DEF Inserting
<1>5. Inserting(q) \subseteq Inserting(r)
  BY <1>1, <1>2, <1>3 DEF Inserting
<1>6. e.kind # "NeighborDown" => e.peer \in Inserting(r)
  BY <1>1, <1>3 DEF Inserting
<1> QED
  BY <1>4, <1>5, <1>6 DEF r

(* Taking the head leaves every other peer in the queue. *)
LEMMA InsertingTail ==
  ASSUME NEW q \in Seq(Event), q # <<>>
  PROVE  /\ Head(q) \in Event
         /\ Tail(q) \in Seq(Event)
         /\ Inserting(q) =
              Inserting(Tail(q)) \cup
                IF Head(q).kind = "NeighborDown" THEN {} ELSE {Head(q).peer}
<1> DEFINE r == Tail(q)
<1>1. Len(r) = Len(q) - 1 /\ Head(q) = q[1] /\ Len(q) \in Nat /\ Len(q) >= 1
  OBVIOUS
<1>2. \A i \in 1 .. Len(r) : r[i] = q[i + 1]
  OBVIOUS
<1>3. Head(q) \in Event /\ r \in Seq(Event)
  OBVIOUS
<1> HIDE DEF r
<1>4. Inserting(r) \subseteq Inserting(q)
  <2>1. ASSUME NEW i \in 1 .. Len(r), r[i].kind # "NeighborDown"
        PROVE  r[i].peer \in Inserting(q)
    <3>1. i + 1 \in 1 .. Len(q) /\ r[i] = q[i + 1]
      BY <1>1, <1>2
    <3> QED
      BY <3>1, <2>1 DEF Inserting
  <2> QED
    BY <2>1 DEF Inserting
<1>5. ASSUME NEW i \in 1 .. Len(q), q[i].kind # "NeighborDown"
      PROVE  q[i].peer \in Inserting(r) \cup
               IF Head(q).kind = "NeighborDown" THEN {} ELSE {Head(q).peer}
  <2>1. CASE i = 1
    BY <1>1, <1>5, <2>1
  <2>2. CASE i # 1
    <3>1. i - 1 \in 1 .. Len(r) /\ r[i - 1] = q[i]
      BY <1>1, <1>2, <2>2
    <3> QED
      BY <3>1, <1>5 DEF Inserting
  <2> QED
    BY <2>1, <2>2
<1>6. Head(q).kind # "NeighborDown" => Head(q).peer \in Inserting(q)
  BY <1>1 DEF Inserting
<1>7. Inserting(q) \subseteq Inserting(r) \cup
        IF Head(q).kind = "NeighborDown" THEN {} ELSE {Head(q).peer}
  BY <1>5 DEF Inserting
<1> QED
  BY <1>3, <1>4, <1>6, <1>7 DEF r

LEMMA InsertingEmpty == Inserting(<<>>) = {}
  BY DEF Inserting

(* What the document engine's notification does to the queue. *)
LEMMA NotifyStep ==
  ASSUME queue \in Seq(Event), NEW kind, NEW p, Notify(kind, p),
         [kind |-> kind, peer |-> p] \in Event
  PROVE  /\ queue' \in Seq(Event)
         /\ Inserting(queue') =
              Inserting(queue) \cup
                IF Subscribed /\ kind # "NeighborDown" THEN {p} ELSE {}
<1> DEFINE e == [kind |-> kind, peer |-> p]
<1>1. e.kind = kind /\ e.peer = p /\ e \in Event
  OBVIOUS
<1> HIDE DEF e
<1>2. CASE Subscribed
  <2>1. queue' = Append(queue, e)
    BY <1>2 DEF Notify, e
  <2>2. Append(queue, e) \in Seq(Event)
    BY <1>1
  <2> QED
    BY <1>1, <1>2, <2>1, <2>2, InsertingAppend
<1>3. CASE ~Subscribed
  BY <1>3 DEF Notify
<1> QED
  BY <1>2, <1>3

-----------------------------------------------------------------------------
LEMMA InitIInv == Init => IInv
<1> SUFFICES ASSUME Init PROVE IInv
  OBVIOUS
<1>1. TypeOK
  <2>1. gate \in [Peers -> {"none", "accepted", "denied"}]
    BY DEF Init
  <2>2. queue \in Seq(Event)
    BY DEF Init
  <2>3. runs \in 0 .. MaxRuns
    BY Bounds DEF Init
  <2> QED
    BY <2>1, <2>2, <2>3 DEF Init, TypeOK, MainStates
<1>2. NoLostPeer /\ Announced /\ StillAllowed /\ HandPhase
  BY InsertingEmpty
     DEF Init, NoLostPeer, Announced, StillAllowed, HandPhase, Subscribed,
         Accepting
<1> QED
  BY <1>1, <1>2 DEF IInv

(* Every step keeps the invariant: one case per action. *)
LEMMA NextIInv == IInv /\ [Next]_vars => IInv'
<1> SUFFICES ASSUME IInv, [Next]_vars PROVE IInv'
  OBVIOUS
<1> USE DEF IInv, NoLostPeer, Announced, StillAllowed, HandPhase, Subscribed,
            Accepting, tasks, swarm, own
<1>1. CASE Spawn
  <2>1. TypeOK'
    <3>1. gate' \in [Peers -> {"none", "accepted", "denied"}]
      BY <1>1 DEF Spawn
    <3>2. queue' \in Seq(Event)
      BY <1>1 DEF Spawn
    <3>3. runs' \in 0 .. MaxRuns
      BY <1>1, Bounds DEF Spawn, TypeOK
    <3> QED
      BY <1>1, <3>1, <3>2, <3>3 DEF Spawn, TypeOK, MainStates
  <2>2. (NoLostPeer /\ Announced /\ StillAllowed /\ HandPhase)'
    BY Bounds, InsertingEmpty, <1>1 DEF TypeOK, Spawn
  <2> QED
    BY <2>1, <2>2
<1>2. CASE Import
  <2>1. TypeOK'
    BY <1>2 DEF TypeOK, MainStates, Import
  <2>2. (NoLostPeer /\ Announced /\ StillAllowed /\ HandPhase)'
    BY <1>2 DEF TypeOK, Import
  <2> QED
    BY <2>1, <2>2
<1>3. CASE QueryExisting
  <2>1. TypeOK'
    BY <1>3 DEF TypeOK, MainStates, QueryExisting
  <2>2. (NoLostPeer /\ Announced /\ StillAllowed /\ HandPhase)'
    BY <1>3 DEF TypeOK, QueryExisting
  <2> QED
    BY <2>1, <2>2
<1>4. CASE PopulateLock
  <2>1. TypeOK'
    BY <1>4 DEF TypeOK, MainStates, PopulateLock
  <2>2. (NoLostPeer /\ Announced /\ StillAllowed /\ HandPhase)'
    BY <1>4 DEF TypeOK, PopulateLock
  <2> QED
    BY <2>1, <2>2
<1>5. CASE PopulateInsert
  <2>1. TypeOK'
    BY <1>5 DEF TypeOK, MainStates, PopulateInsert, Members
  <2>2. (NoLostPeer /\ Announced /\ StillAllowed /\ HandPhase)'
    BY <1>5 DEF TypeOK, PopulateInsert
  <2> QED
    BY <2>1, <2>2
<1>6. CASE PopulateUnlock
  <2>1. TypeOK'
    BY <1>6 DEF TypeOK, MainStates, PopulateUnlock
  <2>2. (NoLostPeer /\ Announced /\ StillAllowed /\ HandPhase)'
    BY <1>6 DEF TypeOK, PopulateUnlock
  <2> QED
    BY <2>1, <2>2
<1>7. CASE Register
  <2>1. TypeOK'
    BY <1>7 DEF TypeOK, MainStates, Register
  <2>2. (NoLostPeer /\ Announced /\ StillAllowed /\ HandPhase)'
    BY <1>7 DEF TypeOK, Register
  <2> QED
    BY <2>1, <2>2
<1>8. CASE CtrlC
  <2>1. TypeOK'
    BY <1>8 DEF TypeOK, MainStates, CtrlC
  <2>2. (NoLostPeer /\ Announced /\ StillAllowed /\ HandPhase)'
    BY <1>8 DEF TypeOK, CtrlC
  <2> QED
    BY <2>1, <2>2
<1>9. CASE WriteOffline
  <2>1. TypeOK'
    BY <1>9 DEF TypeOK, MainStates, WriteOffline
  <2>2. (NoLostPeer /\ Announced /\ StillAllowed /\ HandPhase)'
    BY <1>9 DEF TypeOK, WriteOffline
  <2> QED
    BY <2>1, <2>2
<1>10. CASE AbortTasks
  <2>1. TypeOK'
    BY InsertingEmpty, <1>10 DEF TypeOK, MainStates, AbortTasks
  <2>2. (NoLostPeer /\ Announced /\ StillAllowed /\ HandPhase)'
    BY InsertingEmpty, <1>10 DEF TypeOK, AbortTasks
  <2> QED
    BY <2>1, <2>2
<1>11. CASE RouterShutdown
  <2>1. TypeOK'
    BY <1>11 DEF TypeOK, MainStates, RouterShutdown
  <2>2. (NoLostPeer /\ Announced /\ StillAllowed /\ HandPhase)'
    BY <1>11 DEF TypeOK, RouterShutdown
  <2> QED
    BY <2>1, <2>2
<1>12. CASE Crash
  <2>1. TypeOK'
    BY InsertingEmpty, <1>12 DEF TypeOK, MainStates, Crash
  <2>2. (NoLostPeer /\ Announced /\ StillAllowed /\ HandPhase)'
    BY InsertingEmpty, <1>12 DEF TypeOK, Crash
  <2> QED
    BY <2>1, <2>2
<1>13. CASE EventLock
  <2>1. TypeOK'
    BY <1>13 DEF TypeOK, MainStates, EventLock
  <2>2. (NoLostPeer /\ Announced /\ StillAllowed /\ HandPhase)'
    BY <1>13 DEF TypeOK, EventLock
  <2> QED
    BY <2>1, <2>2
<1>14. CASE EventInsert
  <2>1. TypeOK'
    BY <1>14 DEF TypeOK, MainStates, EventInsert
  <2>2. (NoLostPeer /\ Announced /\ StillAllowed /\ HandPhase)'
    BY <1>14 DEF TypeOK, EventInsert
  <2> QED
    BY <2>1, <2>2
<1>15. CASE HeartbeatTick
  <2>1. TypeOK'
    BY <1>15 DEF TypeOK, MainStates, HeartbeatTick
  <2>2. (NoLostPeer /\ Announced /\ StillAllowed /\ HandPhase)'
    BY <1>15 DEF TypeOK, HeartbeatTick
  <2> QED
    BY <2>1, <2>2
<1>16. CASE HeartbeatWrite
  <2>1. TypeOK'
    BY <1>16 DEF TypeOK, MainStates, HeartbeatWrite
  <2>2. (NoLostPeer /\ Announced /\ StillAllowed /\ HandPhase)'
    BY <1>16 DEF TypeOK, HeartbeatWrite
  <2> QED
    BY <2>1, <2>2
<1>17. CASE \E p \in Satellites : RemoteInsert(p)
  <2>1. PICK p \in Satellites : RemoteInsert(p)
    BY <1>17
  <2>2. /\ queue' \in Seq(Event)
        /\ Inserting(queue') =
             Inserting(queue) \cup IF Subscribed THEN {p} ELSE {}
    <3>1. [kind |-> "InsertRemote", peer |-> p] \in Event
      BY DEF Event
    <3> QED
      BY <2>1, <3>1, NotifyStep DEF RemoteInsert, TypeOK
  <2>3. TypeOK'
    BY <2>1, <2>2 DEF TypeOK, RemoteInsert, Members
  <2>4. (NoLostPeer /\ Announced /\ StillAllowed /\ HandPhase)'
    BY <2>1, <2>2 DEF TypeOK, RemoteInsert, Replicating
  <2> QED
    BY <2>3, <2>4
<1>18. CASE \E p \in Members : NeighborUp(p)
  <2>1. PICK p \in Members : NeighborUp(p)
    BY <1>18
  <2>2. /\ queue' \in Seq(Event)
        /\ Inserting(queue') =
             Inserting(queue) \cup IF Subscribed THEN {p} ELSE {}
    <3>1. [kind |-> "NeighborUp", peer |-> p] \in Event
      BY DEF Event
    <3> QED
      BY <2>1, <3>1, NotifyStep DEF NeighborUp, TypeOK
  <2>3. TypeOK'
    BY <2>1, <2>2 DEF TypeOK, NeighborUp, Members
  <2>4. (NoLostPeer /\ Announced /\ StillAllowed /\ HandPhase)'
    BY <2>1, <2>2 DEF TypeOK, NeighborUp, Replicating
  <2> QED
    BY <2>3, <2>4
<1>19. CASE \E p \in Members : NeighborDown(p)
  <2>1. PICK p \in Members : NeighborDown(p)
    BY <1>19
  <2>2. /\ queue' \in Seq(Event)
        /\ Inserting(queue') =
             Inserting(queue) \cup IF Subscribed THEN {} ELSE {}
    <3>1. [kind |-> "NeighborDown", peer |-> p] \in Event
      BY DEF Event
    <3> QED
      BY <2>1, <3>1, NotifyStep DEF NeighborDown, TypeOK
  <2>3. TypeOK'
    BY <2>1, <2>2 DEF TypeOK, NeighborDown, Members
  <2>4. (NoLostPeer /\ Announced /\ StillAllowed /\ HandPhase)'
    BY <2>1, <2>2 DEF TypeOK, NeighborDown, Replicating
  <2> QED
    BY <2>3, <2>4
<1>20. CASE TakeEvent
  <2>1. /\ queue' = Tail(queue)
        /\ Head(queue) \in Event
        /\ Tail(queue) \in Seq(Event)
        /\ Inserting(queue) =
             Inserting(queue') \cup
               IF Head(queue).kind = "NeighborDown" THEN {}
                                                   ELSE {Head(queue).peer}
    BY <1>20, InsertingTail DEF TakeEvent, TypeOK
  <2>2. Head(queue).peer \in Members
    BY <2>1 DEF Event, Members
  <2>3. TypeOK'
    BY <1>20, <2>1, <2>2 DEF TypeOK, TakeEvent
  <2>4. (NoLostPeer /\ Announced /\ StillAllowed /\ HandPhase)'
    BY <1>20, <2>1 DEF TypeOK, TakeEvent
  <2> QED
    BY <2>3, <2>4
<1>21. CASE \E p \in Peers : Connect(p)
  <2>1. PICK p \in Peers : Connect(p)
    BY <1>21
  <2>2. gate' = [gate EXCEPT ![p] = IF Admits(p) THEN "accepted" ELSE "denied"]
    BY <2>1 DEF Connect
  <2>3. TypeOK'
    BY <2>1, <2>2 DEF TypeOK, Connect
  <2>4. StillAllowed'
    BY <2>1, <2>2 DEF TypeOK, Connect, Admits
  <2>5. (NoLostPeer /\ Announced /\ HandPhase)'
    BY <2>1 DEF Connect
  <2> QED
    BY <2>3, <2>4, <2>5
<1>22. CASE UNCHANGED vars
  BY <1>22 DEF TypeOK, vars
<1> QED
  BY <1>1, <1>2, <1>3, <1>4, <1>5, <1>6, <1>7, <1>8, <1>9, <1>10, <1>11,
     <1>12, <1>13, <1>14, <1>15, <1>16, <1>17, <1>18, <1>19, <1>20, <1>21,
     <1>22
     DEF Next, MainStep, EventTask, Heartbeat, DocEngine

-----------------------------------------------------------------------------
(* Every reachable state of the satellite process satisfies the inductive  *)
(* invariant.                                                              *)
THEOREM Invariance == Spec => []IInv
<1>1. Init => IInv
  BY InitIInv
<1>2. IInv /\ [Next]_vars => IInv'
  BY NextIInv
<1> QED
  BY <1>1, <1>2, PTL DEF Spec

(* The variables of run_satellite_join keep their types, for every number  *)
(* of peers, queue bound and number of restarts.                           *)
THEOREM TypeCorrect == Spec => []TypeOK
<1>1. IInv => TypeOK
  BY DEF IInv
<1> QED
  BY <1>1, Invariance, PTL

(* No announced peer is lost between the populate query and the start of   *)
(* the event task.                                                         *)
THEOREM NoLostPeerHolds == Spec => []NoLostPeer
<1>1. IInv => NoLostPeer
  BY DEF IInv
<1> QED
  BY <1>1, Invariance, PTL

(* The AccessLimit closure lets in only peers that the document or the     *)
(* swarm announced to this run.                                            *)
THEOREM GateSoundHolds == Spec => []GateSound
<1>1. IInv => GateSound
  BY DEF IInv, GateSound, StillAllowed, Announced
<1> QED
  BY <1>1, Invariance, PTL

(* A peer that was let in is refused later in the same run only while the  *)
(* lock is contested: allowed_peers never forgets.                         *)
THEOREM OnceInHolds == Spec => OnceIn
<1> DEFINE Kept == \A p \in Peers :
                     gate[p] = "accepted" /\ gate'[p] = "denied"
                       => lock # "free"
<1>1. IInv /\ [Next]_vars => [Kept]_vars
  <2> SUFFICES ASSUME IInv, Next, NEW p \in Peers,
                      gate[p] = "accepted", gate'[p] = "denied"
               PROVE  lock # "free"
    OBVIOUS
  <2>1. PICK q \in Peers : Connect(q)
    <3>1. gate' # gate /\ gate' # [r \in Peers |-> "none"]
      OBVIOUS
    <3> QED
      BY <3>1 DEF Next, MainStep, EventTask, Heartbeat, DocEngine, Spawn, CtrlC,
            Crash, Import, QueryExisting, PopulateLock, PopulateInsert,
            PopulateUnlock, Register, WriteOffline, AbortTasks, RouterShutdown,
            TakeEvent, EventLock, EventInsert, HeartbeatTick, HeartbeatWrite,
            RemoteInsert, NeighborUp, NeighborDown
  <2>2. q = p /\ ~Admits(p)
    BY <2>1 DEF Connect, IInv, TypeOK
  <2>3. p \in allowed
    BY <2>1 DEF Connect, IInv, StillAllowed
  <2> QED
    BY <2>2, <2>3 DEF Admits
<1> QED
  BY <1>1, Invariance, PTL DEF Spec, OnceIn

-----------------------------------------------------------------------------
(* The entry, seen from the document.                                      *)

(* A run that has not registered has no entry, and a heartbeat is written  *)
(* only while the process counts as up or stopping.                        *)
EntryPhase ==
  /\ main \in {"spawned", "imported", "queried", "populating", "populated"}
       => entry = "none" /\ runs > 0
  /\ heartbeat # "off" => Phase \in {"up", "stopping"}

LEMMA InitEntryPhase == Init => EntryPhase
  BY DEF Init, EntryPhase

LEMMA NextEntryPhase == TypeOK /\ EntryPhase /\ [Next]_vars => EntryPhase'
<1> SUFFICES ASSUME TypeOK, EntryPhase, [Next]_vars PROVE EntryPhase'
  OBVIOUS
<1> USE DEF EntryPhase, Phase, tasks, swarm, own
<1>1. CASE Spawn
  BY <1>1, Bounds DEF Spawn, TypeOK
<1>2. CASE CtrlC \/ Crash
  BY <1>2 DEF CtrlC, Crash
<1>3. CASE MainStep
  BY <1>3 DEF MainStep, Import, QueryExisting, PopulateLock, PopulateInsert,
              PopulateUnlock, Register, WriteOffline, AbortTasks,
              RouterShutdown
<1>4. CASE EventTask \/ Heartbeat
  BY <1>4 DEF EventTask, TakeEvent, EventLock, EventInsert, Heartbeat,
              HeartbeatTick, HeartbeatWrite
<1>5. CASE DocEngine \/ (\E p \in Peers : Connect(p)) \/ UNCHANGED vars
  BY <1>5 DEF DocEngine, RemoteInsert, NeighborUp, NeighborDown, Connect, vars
<1> QED
  BY <1>1, <1>2, <1>3, <1>4, <1>5 DEF Next

(* Each step of the process is a step of Registration, or leaves what the  *)
(* document sees of it unchanged.                                          *)
LEMMA NextEntry ==
  TypeOK /\ EntryPhase /\ [Next]_vars => [Entry!Next]_(Entry!vars)
<1> SUFFICES ASSUME TypeOK, EntryPhase, [Next]_vars
             PROVE  Entry!Next \/ UNCHANGED <<Phase, runs, entry>>
  BY DEF Entry!vars
<1> USE DEF EntryPhase, Phase, tasks, swarm, own
<1>1. CASE Spawn
  BY <1>1 DEF Spawn, Entry!Next, Entry!NewAuthor
<1>2. CASE Register
  BY <1>2 DEF Register, Entry!Next, Entry!Join
<1>3. CASE WriteOffline
  BY <1>3 DEF WriteOffline, Entry!Next, Entry!GoOffline
<1>4. CASE HeartbeatWrite
  BY <1>4 DEF HeartbeatWrite, Entry!Next, Entry!Heartbeat
<1>5. CASE RouterShutdown \/ Crash
  BY <1>5 DEF RouterShutdown, Crash, Entry!Next, Entry!End
<1>6. CASE \/ Import \/ QueryExisting \/ PopulateLock \/ PopulateInsert
           \/ PopulateUnlock \/ AbortTasks \/ CtrlC
  BY <1>6 DEF Import, QueryExisting, PopulateLock, PopulateInsert,
              PopulateUnlock, AbortTasks, CtrlC
<1>7. CASE EventTask \/ HeartbeatTick
  BY <1>7 DEF EventTask, TakeEvent, EventLock, EventInsert, HeartbeatTick
<1>8. CASE DocEngine \/ (\E p \in Peers : Connect(p)) \/ UNCHANGED vars
  BY <1>8 DEF DocEngine, RemoteInsert, NeighborUp, NeighborDown, Connect, vars
<1> QED
  BY <1>1, <1>2, <1>3, <1>4, <1>5, <1>6, <1>7, <1>8
     DEF Next, MainStep, Heartbeat

(* A satellite process implements Registration: with its tasks and its     *)
(* shutdown in any order, a run registers once, says "offline" only on its *)
(* way out and leaves its entry alone after its end.                       *)
THEOREM KeepsItsWordHolds == Spec => KeepsItsWord
<1>1. Init => Entry!Init
  BY DEF Init, Entry!Init, Phase
<1>2. Init => EntryPhase
  BY InitEntryPhase
<1>3. TypeOK /\ EntryPhase /\ [Next]_vars => EntryPhase'
  BY NextEntryPhase
<1>4. TypeOK /\ EntryPhase /\ [Next]_vars => [Entry!Next]_(Entry!vars)
  BY NextEntry
<1> QED
  BY <1>1, <1>2, <1>3, <1>4, TypeCorrect, PTL DEF Spec, Entry!Spec, KeepsItsWord

-----------------------------------------------------------------------------
(* The write lock of allowed_peers.                                        *)

(* The lock is held by the task that is inserting, and by no other: the    *)
(* main task while it populates, the event task for one insertion.  Both   *)
(* then need nothing that another task holds.                              *)
LockHeldToInsert ==
  /\ lock = "main" <=> main = "populating"
  /\ lock = "events" <=> events = "insert"

LEMMA NextLockHeld ==
  IInv /\ LockHeldToInsert /\ [Next]_vars => LockHeldToInsert'
<1> SUFFICES ASSUME IInv, LockHeldToInsert, [Next]_vars
             PROVE  LockHeldToInsert'
  OBVIOUS
<1> USE DEF LockHeldToInsert, IInv, HandPhase, tasks, swarm, own
<1>1. CASE Spawn \/ CtrlC \/ Crash
  BY <1>1 DEF Spawn, CtrlC, Crash, TypeOK
<1>2. CASE MainStep
  BY <1>2 DEF MainStep, Import, QueryExisting, PopulateLock, PopulateInsert,
              PopulateUnlock, Register, WriteOffline, AbortTasks,
              RouterShutdown, TypeOK
<1>3. CASE EventTask
  BY <1>3 DEF EventTask, TakeEvent, EventLock, EventInsert
<1>4. CASE Heartbeat \/ DocEngine
  BY <1>4 DEF Heartbeat, HeartbeatTick, HeartbeatWrite, DocEngine,
              RemoteInsert, NeighborUp, NeighborDown
<1>5. CASE (\E p \in Peers : Connect(p)) \/ UNCHANGED vars
  BY <1>5 DEF Connect, vars
<1> QED
  BY <1>1, <1>2, <1>3, <1>4, <1>5 DEF Next

(* No task of run_satellite_join waits for itself or for another one in a  *)
(* circle over allowed_peers, and none leaves the lock behind: not when it *)
(* is aborted, and not when its run ends.                                  *)
THEOREM LockHeldToInsertHolds == Spec => []LockHeldToInsert
<1>1. Init => LockHeldToInsert
  BY DEF Init, LockHeldToInsert
<1>2. IInv /\ LockHeldToInsert /\ [Next]_vars => LockHeldToInsert'
  BY NextLockHeld
<1> QED
  BY <1>1, <1>2, Invariance, PTL DEF Spec
=============================================================================
