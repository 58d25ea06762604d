------------------------ MODULE ConstellationProofs ------------------------
(***************************************************************************)
(* For any satellites and any number of runs, writes and clock ticks: the  *)
(* types, that discovery sees what the station knew when mission control   *)
(* joined, provided the station has synced before the wait is over         *)
(* (DiscoveryComplete), that the entry of a crashed run is not picked over *)
(* that of a later one (RestartSupersedes), that every satellite           *)
(* implements Registration (AllKeepTheirWord), and that Select allows what *)
(* module Selection computes.                                              *)
(***************************************************************************)
EXTENDS Constellation, TLAPS

(* A run that has not started has written nothing. *)
Unstarted == \A a \in Authors : a[2] > run[a[1]] => log[a] = <<>>

(* No entry is from the future. *)
Dated ==
  \A a \in Authors, i \in 1 .. MaxWrites :
    i <= Len(log[a]) => log[a][i].registered_at <= clock

(* What a later run of a satellite writes, it writes later. *)
Ordered ==
  \A a, b \in Authors, i, j \in 1 .. MaxWrites :
    a[1] = b[1] /\ a[2] < b[2] /\ i <= Len(log[a]) /\ j <= Len(log[b])
      => log[a][i].registered_at <= log[b][j].registered_at

(* What discovery read of an author, that author wrote. *)
FoundLogged ==
  \A a \in Authors :
    found[a] # None =>
      \E i \in 1 .. MaxWrites : i <= Len(log[a]) /\ found[a] = log[a][i]

(* The target was the most recent of its class when it was selected. *)
TargetChosen ==
  target # <<>> =>
    /\ mc = "bridged"
    /\ target \in Eligible
    /\ MostRecent(target)

LogInv == Unstarted /\ Dated /\ Ordered /\ FoundLogged /\ TargetChosen

(* What the station knew when mission control started reaches it with the  *)
(* station's sync, whichever nodes synced before it, and is downloaded, or *)
(* not, before PendingContentReady.                                        *)
SyncInv ==
  /\ seed => \A a \in atStart : known["station"][a] > 0
  /\ mc = "down" => ~sync
  /\ sync => \A a \in atStart : known["mc"][a] > 0
  /\ mc = "ready" /\ sync =>
       \A a \in atStart : a \in late \/ content[a] # "missing"

-----------------------------------------------------------------------------
(* The current author of a satellite that has run is one of the authors.   *)
LEMMA CurrentAuthor ==
  ASSUME TypeOK, NEW s \in Satellites, run[s] > 0
  PROVE  Current(s) \in Authors
  BY Bounds DEF TypeOK, Current, Authors

(* A write appends one entry to the log of its author. *)
LEMMA SetBytesKeeps ==
  ASSUME TypeOK, NEW a \in Authors, NEW status \in {"idle", "offline"},
         SetBytes(a, status)
  PROVE  /\ log' \in [Authors -> Seq(Values)]
         /\ \A b \in Authors : Len(log'[b]) <= MaxWrites
         /\ \A b \in Authors : b # a => log'[b] = log[b]
         /\ Len(log'[a]) = Len(log[a]) + 1
         /\ log'[a][Len(log[a]) + 1] = [status |-> status, registered_at |-> clock]
         /\ \A i \in 1 .. Len(log[a]) : log'[a][i] = log[a][i]
<1> DEFINE e == [status |-> status, registered_at |-> clock]
<1>1. e \in Values /\ log[a] \in Seq(Values) /\ Len(log[a]) \in Nat
  <2>1. e \in Values
    BY DEF TypeOK, Values
  <2>2. log[a] \in Seq(Values)
    BY DEF TypeOK
  <2> HIDE DEF e
  <2> QED
    BY <2>1, <2>2
<1>2. log' = [log EXCEPT ![a] = Append(log[a], e)] /\ Len(log[a]) < MaxWrites
  BY DEF SetBytes
<1> HIDE DEF e
<1>3. log'[a] = Append(log[a], e) /\ \A b \in Authors : b # a => log'[b] = log[b]
  BY <1>2 DEF TypeOK
<1>4. Append(log[a], e) \in Seq(Values) /\ Len(Append(log[a], e)) = Len(log[a]) + 1
  BY <1>1
<1>5. /\ Append(log[a], e)[Len(log[a]) + 1] = e
      /\ \A i \in 1 .. Len(log[a]) : Append(log[a], e)[i] = log[a][i]
  BY <1>1
<1> QED
  BY <1>1, <1>2, <1>3, <1>4, <1>5, Bounds DEF TypeOK, e

(* A node has no more of an author than was written, and the station and   *)
(* mission control have what they were told of.                            *)
LEMMA HasKeeps ==
  ASSUME TypeOK, NEW n \in Nodes, NEW a \in Authors
  PROVE  /\ Has(n, a) \in 0 .. Written(a)
         /\ Written(a) \in 0 .. MaxWrites
         /\ known[n][a] \in Nat /\ known[n][a] <= Has(n, a)
         /\ n \in {"station", "mc"} => Has(n, a) = known[n][a]
<1>1. Written(a) \in 0 .. MaxWrites
  BY Bounds DEF TypeOK, Written
<1>2. known[n][a] \in 0 .. MaxWrites /\ known[n][a] <= Written(a)
  BY DEF TypeOK
<1>3. n \in {"station", "mc"} => n \notin Satellites
  BY Kinds
<1> QED
  BY <1>1, <1>2, <1>3, Bounds DEF Has

(* A replica catches up with no more than was written. *)
LEMMA PassKeeps ==
  ASSUME TypeOK, NEW n \in Nodes, NEW m \in Nodes, NEW a \in Authors,
         Pass(n, m, a)
  PROVE  /\ known' \in [Nodes -> [Authors -> 0 .. MaxWrites]]
         /\ \A l \in Nodes, b \in Authors :
              known'[l][b] = IF l = m /\ b = a THEN Has(n, a) ELSE known[l][b]
         /\ Has(n, a) \in 1 .. Written(a)
         /\ content' \in [Authors -> {"missing", "here", "failed"}]
         /\ late' \subseteq Authors
<1>1. Has(n, a) \in 1 .. Written(a) /\ Has(n, a) \in 0 .. MaxWrites
  <2>1. /\ Has(m, a) \in 0 .. Written(a) /\ Has(n, a) \in 0 .. Written(a)
        /\ Written(a) \in 0 .. MaxWrites
    BY HasKeeps
  <2> QED
    BY <2>1, Bounds DEF Pass
<1>2. known' = [known EXCEPT ![m][a] = Has(n, a)]
  BY DEF Pass
<1>3. /\ content' \in [Authors -> {"missing", "here", "failed"}]
      /\ late' \subseteq Authors
  BY DEF Pass, TypeOK
<1>4. known \in [Nodes -> [Authors -> 0 .. MaxWrites]]
  BY DEF TypeOK
<1> QED
  BY <1>1, <1>2, <1>3, <1>4

(* The replica of one node is emptied, the others stay. *)
LEMMA EmptyKeeps ==
  ASSUME TypeOK, NEW n \in Nodes, known' = [known EXCEPT ![n] = Empty]
  PROVE  /\ known' \in [Nodes -> [Authors -> 0 .. MaxWrites]]
         /\ \A m \in Nodes, a \in Authors : known'[m][a] <= known[m][a]
         /\ \A m \in Nodes : m # n => known'[m] = known[m]
<1>1. known \in [Nodes -> [Authors -> 0 .. MaxWrites]]
  BY DEF TypeOK
<1>2. Empty \in [Authors -> 0 .. MaxWrites] /\ \A a \in Authors : Empty[a] = 0
  BY Bounds DEF Empty
<1>3. \A m \in Nodes : known'[m] = IF m = n THEN Empty ELSE known[m]
  BY <1>1
<1>4. \A m \in Nodes, a \in Authors : known[m][a] \in Nat
  BY <1>1
<1> HIDE DEF Empty
<1>5. known' \in [Nodes -> [Authors -> 0 .. MaxWrites]]
  BY <1>1, <1>2
<1> QED
  BY <1>2, <1>3, <1>4, <1>5

-----------------------------------------------------------------------------
(* The types.                                                              *)

LEMMA InitTypeOK == Init => TypeOK
<1> SUFFICES ASSUME Init PROVE TypeOK
  OBVIOUS
<1>1. log \in [Authors -> Seq(Values)] /\ \A a \in Authors : Len(log[a]) = 0
  BY DEF Init
<1>2. /\ known \in [Nodes -> [Authors -> 0 .. MaxWrites]]
      /\ \A n \in Nodes, a \in Authors : known[n][a] = 0
  BY Bounds DEF Init, Empty
<1>3. \A n \in Nodes, a \in Authors : known[n][a] <= Written(a)
  BY <1>1, <1>2 DEF Written
<1>4. /\ state \in [Satellites -> {"down", "up", "stopping"}]
      /\ run \in [Satellites -> 0 .. MaxRuns]
      /\ \A s \in Satellites : state[s] # "down" => run[s] > 0
      /\ graceful \in [Satellites -> BOOLEAN]
      /\ clock \in 0 .. MaxClock
  BY Bounds DEF Init
<1>5. /\ content \in [Authors -> {"missing", "here", "failed"}]
      /\ found \in [Authors -> Values \cup {None}]
  BY DEF Init
<1>6. /\ seed \in BOOLEAN /\ sync \in BOOLEAN /\ mc = "down"
      /\ late = {} /\ atStart = {} /\ target = <<>>
  BY DEF Init
<1> QED
  BY <1>1, <1>2, <1>3, <1>4, <1>5, <1>6, Bounds DEF TypeOK

LEMMA SatelliteType == TypeOK /\ SatelliteStep => TypeOK'
<1> SUFFICES ASSUME TypeOK, NEW s \in Satellites,
                    \/ Join(s) \/ Heartbeat(s) \/ GoOffline(s)
                    \/ Stop(s) \/ Crash(s)
             PROVE  TypeOK'
  BY DEF SatelliteStep
<1> DEFINE LogOK == /\ log' \in [Authors -> Seq(Values)]
                    /\ \A b \in Authors : Len(log'[b]) <= MaxWrites
                    /\ \A b \in Authors : Len(log[b]) <= Len(log'[b])
<1>1. ASSUME NEW a \in Authors, NEW status \in {"idle", "offline"},
             SetBytes(a, status)
      PROVE  LogOK
  <2>1. \A b \in Authors : Len(log[b]) \in Nat
    BY DEF TypeOK
  <2> QED
    BY <1>1, <2>1, SetBytesKeeps
<1>2. UNCHANGED log => LogOK
  <2>1. \A b \in Authors : Len(log[b]) \in Nat
    BY DEF TypeOK
  <2> QED
    BY <2>1 DEF TypeOK
<1> HIDE DEF LogOK
<1>3. ASSUME LogOK, UNCHANGED <<clock, seed, content, late, control>>,
             known' \in [Nodes -> [Authors -> 0 .. MaxWrites]],
             \A n \in Nodes, a \in Authors : known'[n][a] <= known[n][a],
             state' \in [Satellites -> {"down", "up", "stopping"}],
             run' \in [Satellites -> 0 .. MaxRuns],
             \A r \in Satellites : state'[r] # "down" => run'[r] > 0,
             graceful' \in [Satellites -> BOOLEAN]
      PROVE  TypeOK'
  <2>1. \A b \in Authors : Len(log[b]) \in Nat /\ Len(log'[b]) \in Nat
    BY <1>3 DEF TypeOK, LogOK
  <2>2. \A n \in Nodes, a \in Authors :
          known[n][a] \in Nat /\ known'[n][a] \in Nat
    BY <1>3, Bounds DEF TypeOK
  <2>3. \A n \in Nodes, a \in Authors : known'[n][a] <= Written(a)'
    BY <1>3, <2>1, <2>2 DEF TypeOK, LogOK, Written
  <2> QED
    BY <1>3, <2>3 DEF TypeOK, LogOK, control
<1>7. UNCHANGED copies =>
        /\ UNCHANGED <<seed, content, late>>
        /\ known' \in [Nodes -> [Authors -> 0 .. MaxWrites]]
        /\ \A n \in Nodes, a \in Authors : known'[n][a] <= known[n][a]
  <2>1. \A n \in Nodes, a \in Authors : known[n][a] \in Nat
    BY Bounds DEF TypeOK
  <2> QED
    BY <2>1 DEF TypeOK, copies
<1>4. CASE Join(s)
  <2>1. run[s] + 1 \in 1 .. MaxRuns
    BY <1>4, Bounds DEF TypeOK, Join
  <2>2. <<s, run[s] + 1>> \in Authors /\ LogOK
    BY <1>1, <1>4, <2>1 DEF Authors, Join
  <2> QED
    BY <1>3, <1>4, <1>7, <2>1, <2>2 DEF TypeOK, Join
<1>5. CASE Heartbeat(s) \/ GoOffline(s)
  <2>1. run[s] > 0
    BY <1>5, Bounds DEF TypeOK, Heartbeat, GoOffline
  <2>2. Current(s) \in Authors
    BY <2>1, CurrentAuthor
  <2>3. LogOK
    BY <1>1, <1>2, <1>5, <2>2 DEF Heartbeat, GoOffline
  <2> QED
    BY <1>3, <1>5, <1>7, <2>1, <2>3 DEF TypeOK, Heartbeat, GoOffline
<1>6. CASE Stop(s) \/ Crash(s)
  <2>1. Exit(s) /\ s \in Nodes
    BY <1>6 DEF Stop, Crash, Nodes
  <2>2. /\ known' \in [Nodes -> [Authors -> 0 .. MaxWrites]]
        /\ \A n \in Nodes, a \in Authors : known'[n][a] <= known[n][a]
    BY <2>1, EmptyKeeps DEF Exit
  <2> QED
    BY <1>2, <1>3, <1>6, <2>1, <2>2 DEF TypeOK, Stop, Crash, Exit
<1> QED
  BY <1>4, <1>5, <1>6

LEMMA ReplicationType == TypeOK /\ Replication => TypeOK'
<1> SUFFICES ASSUME TypeOK, Replication PROVE TypeOK'
  OBVIOUS
<1>1. ASSUME NEW n \in Nodes, NEW m \in Nodes, NEW a \in Authors, Pass(n, m, a)
      PROVE  TypeOK'
  <2>1. \A l \in Nodes, b \in Authors : known'[l][b] <= Written(b)'
    <3>1. /\ Has(n, a) \in 1 .. Written(a)
          /\ \A l \in Nodes, b \in Authors :
               known'[l][b] = IF l = m /\ b = a THEN Has(n, a) ELSE known[l][b]
      BY <1>1, PassKeeps
    <3>2. \A b \in Authors : Written(b)' = Written(b) /\ Written(b) \in Nat
      BY <1>1 DEF Pass, TypeOK, Written, sats
    <3>3. \A l \in Nodes, b \in Authors : known[l][b] <= Written(b)
      BY DEF TypeOK
    <3> QED
      BY <3>1, <3>2, <3>3
  <2>2. UNCHANGED <<clock, sats, seed, control>>
    BY <1>1 DEF Pass
  <2> QED
    BY <1>1, <2>1, <2>2, PassKeeps DEF TypeOK, sats, control
<1>2. ASSUME NEW a \in Authors, Download(a)
      PROVE  TypeOK'
  BY <1>2 DEF TypeOK, Download, sats, control, Written
<1> QED
  BY <1>1, <1>2 DEF Replication

(* What mission control reads of an author is an entry it wrote. *)
LEMMA ReadableValue ==
  ASSUME TypeOK, NEW a \in Authors, Readable(a)
  PROVE  /\ known["mc"][a] \in 1 .. Len(log[a])
         /\ Len(log[a]) <= MaxWrites
         /\ log[a][known["mc"][a]] \in Values
<1>1. /\ known["mc"][a] \in 0 .. MaxWrites
      /\ known["mc"][a] <= Len(log[a])
      /\ log[a] \in Seq(Values)
      /\ Len(log[a]) <= MaxWrites
  BY DEF TypeOK, Nodes, Written
<1>2. known["mc"][a] \in 1 .. Len(log[a])
  BY <1>1, Bounds DEF Readable
<1> QED
  BY <1>1, <1>2

LEMMA MissionControlType == TypeOK /\ MissionControl => TypeOK'
<1> SUFFICES ASSUME TypeOK, MissionControl PROVE TypeOK'
  OBVIOUS
<1>1. CASE MCStart
  BY <1>1 DEF MCStart, TypeOK, sats, copies, Written
<1>2. ASSUME NEW n \in Nodes, SyncFinished(n)
      PROVE  TypeOK'
  <2>1. CASE UNCHANGED <<sync, known, content>>
    BY <1>2, <2>1 DEF SyncFinished, TypeOK, sats, Written
  <2>2. CASE ~UNCHANGED <<sync, known, content>>
    <3>1. /\ sync' = (sync \/ n = "station")
          /\ known' = [known EXCEPT !["mc"] =
                [a \in Authors |-> IF known["mc"][a] < Has(n, a)
                                     THEN Has(n, a)
                                     ELSE known["mc"][a]]]
          /\ content' = [a \in Authors |->
                IF known["mc"][a] < Has(n, a) THEN "missing" ELSE content[a]]
      BY <1>2, <2>2 DEF SyncFinished
    <3>2. \A a \in Authors : /\ Has(n, a) \in 0 .. Written(a)
                             /\ Written(a) \in 0 .. MaxWrites
      BY HasKeeps
    <3>3. \A a \in Authors : Has(n, a) \in 0 .. MaxWrites /\ Has(n, a) <= Written(a)
      BY <3>2, Bounds
    <3>4. known' \in [Nodes -> [Authors -> 0 .. MaxWrites]]
      BY <3>1, <3>3 DEF TypeOK, Nodes
    <3>5. content' \in [Authors -> {"missing", "here", "failed"}]
      BY <3>1 DEF TypeOK
    <3>6. \A m \in Nodes, a \in Authors : known'[m][a] <= Written(a)'
      BY <1>2, <3>1, <3>3 DEF SyncFinished, TypeOK, Nodes, Written, sats
    <3>7. UNCHANGED <<clock, sats, seed, late, atStart, found, target>>
      BY <1>2 DEF SyncFinished
    <3>8. mc' = "fetching" /\ sync' \in BOOLEAN
      BY <1>2, <3>1 DEF SyncFinished, TypeOK
    <3> QED
      BY <3>4, <3>5, <3>6, <3>7, <3>8 DEF TypeOK, sats
  <2> QED
    BY <2>1, <2>2
<1>3. CASE PendingContentReady \/ StreamEnds
  BY <1>3 DEF PendingContentReady, StreamEnds, TypeOK, sats, copies, Written
<1>4. CASE Discover
  <2>1. \A a \in Authors : Readable(a) => log[a][known["mc"][a]] \in Values
    BY ReadableValue
  <2>2. found' \in [Authors -> Values \cup {None}]
    BY <1>4, <2>1 DEF Discover
  <2>3. known' = [known EXCEPT !["mc"] = Empty] /\ "mc" \in Nodes
    BY <1>4 DEF Discover, Nodes
  <2>4. /\ known' \in [Nodes -> [Authors -> 0 .. MaxWrites]]
        /\ \A n \in Nodes, a \in Authors : known'[n][a] <= known[n][a]
    BY <2>3, EmptyKeeps
  <2>5. \A n \in Nodes, a \in Authors :
          /\ known[n][a] \in Nat /\ known'[n][a] \in Nat
          /\ known[n][a] <= Written(a) /\ Written(a) \in Nat
    BY <2>4, Bounds DEF TypeOK, Written
  <2>6. UNCHANGED <<clock, sats, seed, target>>
    BY <1>4 DEF Discover
  <2>7. \A n \in Nodes, a \in Authors : known'[n][a] <= Written(a)'
    BY <2>4, <2>5, <2>6 DEF sats, Written
  <2>8. /\ content' \in [Authors -> {"missing", "here", "failed"}]
        /\ mc' = "discovered" /\ late' = {} /\ sync' = FALSE /\ atStart' = {}
    BY <1>4 DEF Discover
  <2> QED
    BY <2>2, <2>4, <2>6, <2>7, <2>8 DEF TypeOK, sats
<1>5. CASE Select
  <2>1. target' \in Authors \cup {<<>>}
    BY <1>5 DEF Select, Eligible, IdleOf
  <2> QED
    BY <1>5, <2>1 DEF Select, TypeOK, sats, copies, Written
<1> QED
  BY <1>1, <1>2, <1>3, <1>4, <1>5 DEF MissionControl

LEMMA StationType == TypeOK /\ StationStops => TypeOK'
<1> SUFFICES ASSUME TypeOK, StationStops PROVE TypeOK'
  OBVIOUS
<1>1. /\ known' = [known EXCEPT !["station"] = Empty]
      /\ seed' = FALSE
      /\ UNCHANGED <<clock, sats, content, late, control>>
  BY DEF StationStops
<1>2. \A a \in Authors : Written(a)' = Written(a) /\ Written(a) \in Nat
  BY <1>1 DEF Written, sats, TypeOK
<1>3. /\ known' \in [Nodes -> [Authors -> 0 .. MaxWrites]]
      /\ \A n \in Nodes, a \in Authors : known'[n][a] <= known[n][a]
  BY <1>1, EmptyKeeps DEF Nodes
<1>4. \A n \in Nodes, a \in Authors :
        known[n][a] \in Nat /\ known'[n][a] \in Nat
  BY <1>3, Bounds DEF TypeOK
<1>5. \A n \in Nodes, a \in Authors : known'[n][a] <= Written(a)'
  BY <1>2, <1>3, <1>4 DEF TypeOK
<1> QED
  BY <1>1, <1>3, <1>5 DEF TypeOK, sats, control

LEMMA NextTypeOK == TypeOK /\ [Next]_vars => TypeOK'
<1> SUFFICES ASSUME TypeOK, [Next]_vars PROVE TypeOK'
  OBVIOUS
<1>1. CASE Tick
  BY <1>1, Bounds DEF Tick, TypeOK, sats, copies, control, Written
<1>2. CASE UNCHANGED vars
  BY <1>2 DEF vars, TypeOK, sats, copies, control, Written
<1> QED
  BY <1>1, <1>2, StationType, SatelliteType, ReplicationType, MissionControlType
     DEF Next

(* The document, the replicas and mission control keep their types; no     *)
(* replica has more of an author than it wrote.                            *)
THEOREM TypeCorrect == Spec => []TypeOK
  BY InitTypeOK, NextTypeOK, PTL DEF Spec

-----------------------------------------------------------------------------
(* What is written when, and by whom.                                      *)

(* A write of the latest run of a satellite is the latest entry of all.    *)
LEMMA WriteKeeps ==
  ASSUME TypeOK, LogInv, NEW a \in Authors, NEW status \in {"idle", "offline"},
         SetBytes(a, status), UNCHANGED <<clock, found>>,
         \A b \in Authors : b[1] = a[1] /\ b[2] > a[2] => log[b] = <<>>
  PROVE  Dated' /\ Ordered' /\ FoundLogged'
<1>1. \A b \in Authors : Len(log[b]) \in Nat /\ Len(log'[b]) \in Nat
  BY SetBytesKeeps DEF TypeOK
<1>2. /\ \A b \in Authors : b # a => log'[b] = log[b]
      /\ Len(log'[a]) = Len(log[a]) + 1
      /\ log'[a][Len(log[a]) + 1].registered_at = clock
      /\ \A i \in 1 .. Len(log[a]) : log'[a][i] = log[a][i]
  BY SetBytesKeeps
<1>3. clock \in Nat
  BY Bounds DEF TypeOK
<1>4. ASSUME NEW b \in Authors, NEW i \in 1 .. MaxWrites, i <= Len(log'[b])
      PROVE  \/ i <= Len(log[b]) /\ log'[b][i] = log[b][i]
             \/ b = a /\ log'[b][i].registered_at = clock
  BY <1>1, <1>2, <1>4, Bounds
<1>5. Dated'
  BY <1>3, <1>4 DEF LogInv, Dated
<1>6. Ordered'
  <2> SUFFICES ASSUME NEW b \in Authors, NEW c \in Authors,
                      NEW i \in 1 .. MaxWrites, NEW j \in 1 .. MaxWrites,
                      b[1] = c[1], b[2] < c[2],
                      i <= Len(log'[b]), j <= Len(log'[c])
               PROVE  log'[b][i].registered_at <= log'[c][j].registered_at
    BY DEF Ordered
  <2>1. b # c /\ b[2] \in Nat /\ c[2] \in Nat
    BY Bounds DEF Authors
  <2>2. CASE c = a
    <3>1. i <= Len(log[b]) /\ log'[b][i] = log[b][i]
      BY <1>4, <2>1, <2>2
    <3>2. log[b][i].registered_at <= clock
      BY <3>1 DEF LogInv, Dated
    <3> QED
      BY <1>4, <2>2, <3>1, <3>2 DEF LogInv, Ordered
  <2>3. CASE b = a
    <3>1. log[c] = <<>> /\ log'[c] = log[c]
      BY <1>2, <2>1, <2>3
    <3>2. Len(log'[c]) = 0
      BY <3>1
    <3> QED
      BY <3>2, Bounds
  <2>4. CASE b # a /\ c # a
    BY <1>4, <2>4 DEF LogInv, Ordered
  <2> QED
    BY <2>2, <2>3, <2>4
<1>7. FoundLogged'
  <2> SUFFICES ASSUME NEW b \in Authors, found[b] # None
               PROVE  \E i \in 1 .. MaxWrites :
                        i <= Len(log'[b]) /\ found[b] = log'[b][i]
    BY DEF FoundLogged
  <2>1. PICK i \in 1 .. MaxWrites : i <= Len(log[b]) /\ found[b] = log[b][i]
    BY DEF LogInv, FoundLogged
  <2>2. i <= Len(log'[b]) /\ log'[b][i] = log[b][i]
    BY <1>1, <1>2, <2>1, Bounds
  <2> QED
    BY <2>1, <2>2
<1> QED
  BY <1>5, <1>6, <1>7

LEMMA InitLogInv == Init => LogInv
<1> SUFFICES ASSUME Init PROVE LogInv
  OBVIOUS
<1>1. \A a \in Authors : log[a] = <<>> /\ Len(log[a]) = 0
  BY DEF Init
<1>2. Unstarted /\ Dated /\ Ordered
  BY <1>1, Bounds DEF Unstarted, Dated, Ordered
<1>3. FoundLogged /\ TargetChosen
  BY DEF Init, FoundLogged, TargetChosen
<1> QED
  BY <1>2, <1>3 DEF LogInv

(* The target and the reasons for it do not change with the document.      *)
LEMMA TargetSame ==
  ASSUME TargetChosen, UNCHANGED <<mc, found, target>>
  PROVE  TargetChosen'
  BY DEF TargetChosen, Eligible, IdleOf, MostRecent

LEMMA SatelliteLogInv == TypeOK /\ LogInv /\ SatelliteStep => LogInv'
<1> SUFFICES ASSUME TypeOK, LogInv, NEW s \in Satellites,
                    \/ Join(s) \/ Heartbeat(s) \/ GoOffline(s)
                    \/ Stop(s) \/ Crash(s)
             PROVE  LogInv'
  BY DEF SatelliteStep
<1>1. UNCHANGED <<clock, mc, found, target>>
  BY DEF Join, Heartbeat, GoOffline, Stop, Crash, Exit, control
<1>2. TargetChosen'
  BY <1>1, TargetSame DEF LogInv
<1>3. CASE Join(s)
  <2> DEFINE a == <<s, run[s] + 1>>
  <2>1. a \in Authors /\ run[s] \in Nat
    BY <1>3, Bounds DEF Authors, Join, TypeOK
  <2>2. \A b \in Authors : b[1] = s /\ b[2] > run[s] => log[b] = <<>>
    BY DEF LogInv, Unstarted
  <2>3. \A b \in Authors : b[1] = a[1] /\ b[2] > a[2] => log[b] = <<>>
    BY <2>1, <2>2, Bounds DEF Authors
  <2>4. Dated' /\ Ordered' /\ FoundLogged'
    BY <1>1, <1>3, <2>1, <2>3, WriteKeeps DEF Join
  <2>5. \A b \in Authors : b # a => log'[b] = log[b]
    BY <1>3, <2>1, SetBytesKeeps DEF Join
  <2>6. \A r \in Satellites : run'[r] = IF r = s THEN run[s] + 1 ELSE run[r]
    BY <1>3 DEF Join, TypeOK
  <2>7. Unstarted'
    <3> SUFFICES ASSUME NEW b \in Authors, b[2] > run'[b[1]]
                 PROVE  log'[b] = <<>>
      BY DEF Unstarted
    <3>1. b[1] \in Satellites /\ b[2] \in Nat
      BY Bounds DEF Authors
    <3>2. b # a /\ b[2] > run[b[1]]
      BY <2>1, <2>6, <3>1
    <3> QED
      BY <2>5, <3>2 DEF LogInv, Unstarted
  <2> QED
    BY <1>2, <2>4, <2>7 DEF LogInv
<1>4. CASE Heartbeat(s) \/ GoOffline(s)
  <2>1. run[s] > 0 /\ UNCHANGED run
    BY <1>4 DEF TypeOK, Heartbeat, GoOffline
  <2>2. Current(s) \in Authors
    BY <2>1, CurrentAuthor
  <2>3. \A b \in Authors : b[1] = s /\ b[2] > run[s] => log[b] = <<>>
    BY DEF LogInv, Unstarted
  <2>4. Dated' /\ Ordered' /\ FoundLogged'
    <3>1. CASE UNCHANGED log
      BY <1>1, <3>1 DEF LogInv, Dated, Ordered, FoundLogged
    <3>2. CASE ~UNCHANGED log
      BY <1>1, <1>4, <2>2, <2>3, <3>2, WriteKeeps
         DEF Heartbeat, GoOffline, Current
    <3> QED
      BY <3>1, <3>2
  <2>5. \A b \in Authors : b # Current(s) => log'[b] = log[b]
    BY <1>4, <2>2, SetBytesKeeps DEF Heartbeat, GoOffline
  <2>6. \A b \in Authors : b[2] > run[b[1]] => b # Current(s)
    BY Bounds DEF Authors, Current, TypeOK
  <2>7. Unstarted'
    BY <2>1, <2>5, <2>6 DEF LogInv, Unstarted
  <2> QED
    BY <1>2, <2>4, <2>7 DEF LogInv
<1>5. CASE Stop(s) \/ Crash(s)
  BY <1>1, <1>2, <1>5
     DEF Stop, Crash, Exit, LogInv, Unstarted, Dated, Ordered, FoundLogged
<1> QED
  BY <1>3, <1>4, <1>5

LEMMA OtherLogInv ==
  TypeOK /\ LogInv /\ (Tick \/ StationStops \/ Replication \/ UNCHANGED vars)
    => LogInv'
<1> SUFFICES ASSUME TypeOK, LogInv,
                    Tick \/ StationStops \/ Replication \/ UNCHANGED vars
             PROVE  LogInv'
  OBVIOUS
<1>1. UNCHANGED <<run, log, mc, found, target>> /\ (clock' = clock \/ clock' = clock + 1)
  BY DEF Tick, StationStops, Replication, Pass, Download, vars, sats, control
<1>2. TargetChosen'
  BY <1>1, TargetSame DEF LogInv
<1>3. Unstarted' /\ Ordered' /\ FoundLogged'
  BY <1>1 DEF LogInv, Unstarted, Ordered, FoundLogged
<1>4. Dated'
  <2> SUFFICES ASSUME NEW a \in Authors, NEW i \in 1 .. MaxWrites, i <= Len(log[a])
               PROVE  log[a][i].registered_at <= clock'
    BY <1>1 DEF Dated
  <2>1. log[a] \in Seq(Values) /\ Len(log[a]) \in Nat
    BY DEF TypeOK
  <2>2. log[a][i] \in Values
    BY <2>1, Bounds
  <2>3. log[a][i].registered_at \in Nat /\ clock \in Nat
    BY <2>2, Bounds DEF Values, TypeOK
  <2>4. log[a][i].registered_at <= clock
    BY DEF LogInv, Dated
  <2> QED
    BY <1>1, <2>3, <2>4
<1> QED
  BY <1>2, <1>3, <1>4 DEF LogInv

LEMMA MissionControlLogInv == TypeOK /\ LogInv /\ MissionControl => LogInv'
<1> SUFFICES ASSUME TypeOK, LogInv, MissionControl PROVE LogInv'
  OBVIOUS
<1>1. UNCHANGED <<clock, run, log>>
  BY DEF MissionControl, MCStart, SyncFinished, PendingContentReady, StreamEnds,
         Discover, Select, sats
<1>2. Unstarted' /\ Dated' /\ Ordered'
  BY <1>1 DEF LogInv, Unstarted, Dated, Ordered
<1>3. FoundLogged'
  <2>1. CASE Discover
    <3> SUFFICES ASSUME NEW a \in Authors, found'[a] # None
                 PROVE  \E i \in 1 .. MaxWrites :
                          i <= Len(log[a]) /\ found'[a] = log[a][i]
      BY <1>1 DEF FoundLogged
    <3>1. Readable(a) /\ found'[a] = log[a][known["mc"][a]]
      BY <2>1 DEF Discover
    <3>2. known["mc"][a] \in 1 .. MaxWrites /\ known["mc"][a] <= Len(log[a])
      BY <3>1, ReadableValue, Bounds
    <3> QED
      BY <3>1, <3>2
  <2>2. CASE ~Discover
    BY <1>1, <2>2 DEF MissionControl, MCStart, SyncFinished,
                      PendingContentReady, StreamEnds, Select, LogInv, FoundLogged
  <2> QED
    BY <2>1, <2>2 DEF MissionControl
<1>4. TargetChosen'
  <2>1. CASE Select
    <3>1. UNCHANGED found
      BY <2>1 DEF Select
    <3>2. target' # <<>> => mc' = "bridged" /\ target' \in Eligible /\ MostRecent(target')
      BY <2>1 DEF Select
    <3> QED
      BY <3>1, <3>2 DEF TargetChosen, Eligible, IdleOf, MostRecent
  <2>2. CASE ~Select
    BY <2>2 DEF MissionControl, MCStart, SyncFinished, PendingContentReady,
                StreamEnds, Discover, LogInv, TargetChosen
  <2> QED
    BY <2>1, <2>2 DEF MissionControl
<1> QED
  BY <1>2, <1>3, <1>4 DEF LogInv

LEMMA NextLogInv == TypeOK /\ LogInv /\ [Next]_vars => LogInv'
  BY SatelliteLogInv, OtherLogInv, MissionControlLogInv DEF Next

(* A satellite's later run writes later entries, and so its crashed run is *)
(* picked only if both registered in the same instant.                     *)
LEMMA LogInvSupersedes == TypeOK /\ LogInv => RestartSupersedes
<1> SUFFICES ASSUME TypeOK, LogInv, target # <<>>,
                    NEW r \in 1 .. MaxRuns, r > target[2],
                    found[<<target[1], r>>].status = "idle"
             PROVE  found[<<target[1], r>>].registered_at
                      = found[target].registered_at
  BY DEF RestartSupersedes
<1> DEFINE b == <<target[1], r>>
<1>1. target \in Authors /\ target \in Eligible /\ MostRecent(target)
  BY DEF TypeOK, LogInv, TargetChosen
<1>2. b \in Authors /\ b[1] = target[1] /\ b[2] = r
  BY <1>1 DEF Authors
<1>3. b \in Eligible
  BY <1>1, <1>2 DEF Eligible, IdleOf
<1>4. found[b].registered_at <= found[target].registered_at
  BY <1>1, <1>3 DEF MostRecent
<1>5. found[target].status = "idle"
  BY <1>1 DEF Eligible, IdleOf
<1>6. found[b] # None /\ found[target] # None
  BY <1>5 DEF None
<1>7. PICK i \in 1 .. MaxWrites : i <= Len(log[target]) /\ found[target] = log[target][i]
  BY <1>1, <1>6 DEF LogInv, FoundLogged
<1>8. PICK j \in 1 .. MaxWrites : j <= Len(log[b]) /\ found[b] = log[b][j]
  BY <1>2, <1>6 DEF LogInv, FoundLogged
<1>9. found[target].registered_at <= found[b].registered_at
  BY <1>1, <1>2, <1>7, <1>8 DEF LogInv, Ordered
<1>10. found[b].registered_at \in Nat /\ found[target].registered_at \in Nat
  <2>1. found[b] \in Values /\ found[target] \in Values
    BY <1>1, <1>2, <1>6 DEF TypeOK
  <2> QED
    BY <2>1, Bounds DEF Values
<1> QED
  BY <1>4, <1>9, <1>10

(* A satellite that restarted supersedes the entry of its crashed run in   *)
(* every selection, for any number of satellites, runs and heartbeats.     *)
THEOREM RestartSupersedesHolds == Spec => []RestartSupersedes
  BY InitTypeOK, NextTypeOK, InitLogInv, NextLogInv, LogInvSupersedes, PTL
     DEF Spec

-----------------------------------------------------------------------------
(* What the first sync promises to discovery.                              *)

LEMMA InitSyncInv == Init => SyncInv
  BY DEF Init, SyncInv

(* Replication adds entries and marks what comes in after the wait.        *)
LEMMA ReplicationSyncInv == TypeOK /\ SyncInv /\ Replication => SyncInv'
<1> SUFFICES ASSUME TypeOK, SyncInv, Replication PROVE SyncInv'
  OBVIOUS
<1>1. ASSUME NEW n \in Nodes, NEW m \in Nodes, NEW a \in Authors, Pass(n, m, a)
      PROVE  SyncInv'
  <2>1. /\ Has(n, a) \in 1 .. Written(a) /\ Has(n, a) > 0
        /\ \A l \in Nodes, b \in Authors :
             known'[l][b] = IF l = m /\ b = a THEN Has(n, a) ELSE known[l][b]
    <3>1. Has(n, a) \in 1 .. Written(a) /\ Written(a) \in Nat
      BY <1>1, PassKeeps, HasKeeps
    <3> QED
      BY <1>1, <3>1, PassKeeps
  <2>2. \A l \in Nodes, b \in Authors : known[l][b] > 0 => known'[l][b] > 0
    BY <2>1
  <2>3. atStart \subseteq Authors /\ UNCHANGED <<seed, mc, sync, atStart>>
    BY <1>1 DEF Pass, TypeOK, control
  <2>4. \A b \in Authors :
          mc = "ready" /\ (b \in late \/ content[b] # "missing")
            => b \in late' \/ content'[b] # "missing"
    BY <1>1 DEF Pass, TypeOK
  <2> QED
    BY <2>2, <2>3, <2>4 DEF SyncInv, Nodes
<1>2. ASSUME NEW a \in Authors, Download(a)
      PROVE  SyncInv'
  <2>1. \A b \in Authors : content[b] # "missing" => content'[b] # "missing"
    BY <1>2 DEF Download, TypeOK
  <2> QED
    BY <1>2, <2>1 DEF Download, SyncInv, control, TypeOK
<1> QED
  BY <1>1, <1>2 DEF Replication

LEMMA MissionControlSyncInv == TypeOK /\ SyncInv /\ MissionControl => SyncInv'
<1> SUFFICES ASSUME TypeOK, SyncInv, MissionControl PROVE SyncInv'
  OBVIOUS
<1>1. CASE MCStart
  BY <1>1 DEF MCStart, SyncInv, copies
<1>2. ASSUME NEW n \in Nodes, SyncFinished(n)
      PROVE  SyncInv'
  <2>1. mc' = "fetching" /\ UNCHANGED <<seed, atStart>>
    BY <1>2 DEF SyncFinished
  <2>2. CASE UNCHANGED <<sync, known, content>>
    BY <2>1, <2>2 DEF SyncInv
  <2>3. CASE ~UNCHANGED <<sync, known, content>>
    <3>1. /\ Online(n)
          /\ sync' = (sync \/ n = "station")
          /\ known' = [known EXCEPT !["mc"] =
               [a \in Authors |-> IF known["mc"][a] < Has(n, a)
                                    THEN Has(n, a)
                                    ELSE known["mc"][a]]]
      BY <1>2, <2>3 DEF SyncFinished
    <3>2. known \in [Nodes -> [Authors -> 0 .. MaxWrites]]
      BY DEF TypeOK
    <3>3. /\ known'["station"] = known["station"]
          /\ \A a \in Authors :
               known'["mc"][a] = IF known["mc"][a] < Has(n, a)
                                   THEN Has(n, a)
                                   ELSE known["mc"][a]
      BY <3>1, <3>2 DEF Nodes
    <3>4. \A a \in Authors : /\ Has(n, a) \in 0 .. Written(a)
                             /\ Written(a) \in 0 .. MaxWrites
                             /\ known["mc"][a] \in Nat
                             /\ n = "station" => Has(n, a) = known["station"][a]
      BY HasKeeps DEF Nodes
    <3>5. \A a \in Authors : known["mc"][a] > 0 => known'["mc"][a] > 0
      BY <3>3, <3>4
    <3>6. n = "station" => \A a \in atStart : known'["mc"][a] > 0
      <4>1. n = "station" => seed
        BY <3>1, Kinds DEF Online
      <4>2. \A a \in atStart : seed => a \in Authors /\ known["station"][a] > 0
        BY DEF SyncInv, TypeOK
      <4> QED
        BY <3>3, <3>4, <4>1, <4>2
    <3> QED
      BY <2>1, <3>1, <3>3, <3>5, <3>6 DEF SyncInv, TypeOK
  <2> QED
    BY <2>2, <2>3
<1>3. CASE PendingContentReady
  <2>1. \A a \in atStart : known["mc"][a] > 0 => content[a] # "missing"
    BY <1>3 DEF PendingContentReady, Pending, TypeOK
  <2> QED
    BY <1>3, <2>1 DEF PendingContentReady, SyncInv, copies
<1>4. CASE StreamEnds \/ Discover \/ Select
  BY <1>4 DEF StreamEnds, Discover, Select, SyncInv, copies
<1> QED
  BY <1>1, <1>2, <1>3, <1>4 DEF MissionControl

LEMMA NextSyncInv == TypeOK /\ SyncInv /\ [Next]_vars => SyncInv'
<1> SUFFICES ASSUME TypeOK, SyncInv, [Next]_vars PROVE SyncInv'
  OBVIOUS
<1>1. CASE Tick \/ SatelliteStep \/ UNCHANGED vars
  <2>1. CASE UNCHANGED <<copies, control>>
    BY <2>1 DEF SyncInv, copies, control
  <2>2. CASE ~UNCHANGED <<copies, control>>
    <3>1. PICK s \in Satellites : Exit(s)
      BY <1>1, <2>2
         DEF Tick, SatelliteStep, Join, Heartbeat, GoOffline, Stop, Crash, vars
    <3>2. UNCHANGED <<seed, content, late, control>>
      BY <3>1 DEF Exit
    <3>3. known'["station"] = known["station"] /\ known'["mc"] = known["mc"]
      BY <3>1, EmptyKeeps, Kinds DEF Exit, Nodes
    <3> QED
      BY <3>2, <3>3 DEF SyncInv, control
  <2> QED
    BY <2>1, <2>2
<1>2. CASE StationStops
  <2>1. /\ ~seed' /\ UNCHANGED <<content, late, mc, sync, atStart>>
        /\ known' = [known EXCEPT !["station"] = Empty]
    BY <1>2 DEF StationStops, control
  <2>2. known'["mc"] = known["mc"]
    BY <2>1, EmptyKeeps DEF Nodes
  <2> QED
    BY <2>1, <2>2 DEF SyncInv
<1> QED
  BY <1>1, <1>2, ReplicationSyncInv, MissionControlSyncInv DEF Next

LEMMA DiscoverySees ==
  TypeOK /\ SyncInv /\ [Next]_vars =>
    (mc = "ready" /\ mc' = "discovered" /\ sync =>
       \A a \in atStart :
         found'[a] # None \/ a \in late \/ content[a] = "failed")
<1> SUFFICES ASSUME TypeOK, SyncInv, [Next]_vars,
                    mc = "ready", mc' = "discovered", sync,
                    NEW a \in atStart, a \notin late, content[a] # "failed"
             PROVE  found'[a] # None
  OBVIOUS
<1>1. Discover
  BY DEF Next, Tick, StationStops, SatelliteStep, Join, Heartbeat, GoOffline,
         Stop, Crash, Exit, Replication, Pass, Download, MissionControl, MCStart,
         SyncFinished, PendingContentReady, StreamEnds, Select, control, vars
<1>2. a \in Authors
  BY DEF TypeOK
<1>3. content[a] = "here" /\ known["mc"][a] > 0
  BY <1>2 DEF SyncInv, TypeOK
<1>4. Readable(a)
  BY <1>3 DEF Readable
<1>5. found'[a] = log[a][known["mc"][a]] /\ found'[a] \in Values
  BY <1>1, <1>2, <1>4, ReadableValue DEF Discover
<1> QED
  BY <1>5 DEF Values, None

(* A mission control that the station has synced with before the wait is   *)
(* over discovers every satellite that the station knew when it started,   *)
(* for any number of satellites, whatever the network delays and whoever   *)
(* else syncs, unless its download failed or a newer entry came in after   *)
(* PendingContentReady.                                                    *)
THEOREM DiscoveryCompleteHolds == Spec => DiscoveryComplete
<1>1. TypeOK /\ SyncInv /\ [Next]_vars =>
        [mc = "ready" /\ mc' = "discovered" /\ sync =>
           \A a \in atStart :
             found'[a] # None \/ a \in late \/ content[a] = "failed"]_vars
  BY DiscoverySees
<1> QED
  BY <1>1, InitTypeOK, NextTypeOK, InitSyncInv, NextSyncInv, PTL
     DEF Spec, DiscoveryComplete

-----------------------------------------------------------------------------
(* Each satellite's entry, seen from the document.                         *)

(* A run that is up has registered. *)
Registered ==
  \A s \in Satellites : run[s] > 0 => Len(log[Current(s)]) > 0

(* A write under the current author is what the document shows of it.      *)
LEMMA WriteShows ==
  ASSUME TypeOK, NEW s \in Satellites, NEW a \in Authors, Current(s)' = a,
         run'[s] > 0, NEW status \in {"idle", "offline"}, SetBytes(a, status)
  PROVE  LastStatus(s)' = status /\ Len(log'[a]) > 0
<1>1. Len(log'[a]) = Len(log[a]) + 1 /\ Len(log[a]) \in Nat
  BY SetBytesKeeps DEF TypeOK
<1>2. log'[a][Len(log'[a])] = [status |-> status, registered_at |-> clock]
  BY <1>1, SetBytesKeeps
<1>3. LastStatus(s)' = log'[a][Len(log'[a])].status
  BY DEF LastStatus, Written
<1> QED
  BY <1>1, <1>2, <1>3

(* What a satellite does leaves the entries of the others alone. *)
LEMMA OthersEntries ==
  ASSUME TypeOK, NEW s \in Satellites, NEW r \in Satellites, r # s,
         Join(s) \/ Heartbeat(s) \/ GoOffline(s) \/ Stop(s) \/ Crash(s)
  PROVE  /\ UNCHANGED <<state[r], run[r], LastStatus(r)>>
         /\ run[r] > 0 => log'[Current(r)'] = log[Current(r)]
<1>1. state'[r] = state[r] /\ run'[r] = run[r] /\ Current(r)' = Current(r)
  BY DEF Join, Heartbeat, GoOffline, Stop, Crash, Exit, TypeOK, Current
<1>2. run[r] > 0 => log'[Current(r)] = log[Current(r)]
  BY CurrentAuthor
     DEF Join, Heartbeat, GoOffline, Stop, Crash, Exit, SetBytes, Current, TypeOK
<1>3. run[r] \in Nat
  BY DEF TypeOK
<1> QED
  BY <1>1, <1>2, <1>3 DEF LastStatus, Written

(* Its own entry changes as Registration allows. *)
LEMMA OwnEntry ==
  ASSUME TypeOK, Registered, NEW s \in Satellites,
         Join(s) \/ Heartbeat(s) \/ GoOffline(s) \/ Stop(s) \/ Crash(s)
  PROVE  Entry(s)!Next /\ (run'[s] > 0 => Len(log'[Current(s)']) > 0)
<1>1. run[s] \in Nat /\ (state[s] # "down" => Current(s) \in Authors)
  BY CurrentAuthor DEF TypeOK
<1>2. CASE Join(s)
  <2> DEFINE a == <<s, run[s] + 1>>
  <2>1. /\ state[s] = "down" /\ state'[s] = "up"
        /\ run'[s] = run[s] + 1 /\ Current(s)' = a
    BY <1>2 DEF Join, TypeOK, Current
  <2>2. a \in Authors
    BY <1>1, <1>2, Bounds DEF Authors, Join
  <2>3. LastStatus(s)' = "idle" /\ Len(log'[a]) > 0
    BY <1>1, <1>2, <2>1, <2>2, WriteShows DEF Join
  <2> QED
    BY <2>1, <2>3 DEF Entry!Next, Entry!Join
<1>3. CASE Heartbeat(s)
  <2>1. Current(s)' = Current(s) /\ run'[s] = run[s] /\ run[s] > 0
    BY <1>3 DEF Heartbeat, Current, TypeOK
  <2>2. LastStatus(s)' = "idle" /\ Len(log'[Current(s)]) > 0
    BY <1>1, <1>3, <2>1, WriteShows DEF Heartbeat
  <2> QED
    BY <1>3, <2>1, <2>2 DEF Heartbeat, Entry!Next, Entry!Heartbeat
<1>4. CASE GoOffline(s)
  <2>1. /\ Current(s)' = Current(s) /\ run'[s] = run[s] /\ run[s] > 0
        /\ state[s] = "up" /\ state'[s] = "stopping"
    BY <1>4 DEF GoOffline, Current, TypeOK
  <2>2. CASE UNCHANGED log
    BY <2>1, <2>2 DEF Registered, LastStatus, Written, Entry!Next,
                      Entry!GoOffline
  <2>3. CASE SetBytes(Current(s), "offline")
    <3>1. LastStatus(s)' = "offline" /\ Len(log'[Current(s)]) > 0
      BY <1>1, <2>1, <2>3, WriteShows
    <3> QED
      BY <2>1, <3>1 DEF Entry!Next, Entry!GoOffline
  <2> QED
    BY <1>4, <2>2, <2>3 DEF GoOffline
<1>5. CASE Stop(s) \/ Crash(s)
  <2>1. /\ state[s] \in {"up", "stopping"} /\ state'[s] = "down"
        /\ UNCHANGED <<run, log>> /\ Current(s)' = Current(s)
    BY <1>5 DEF Stop, Crash, Exit, TypeOK, Current
  <2> QED
    BY <2>1 DEF Registered, LastStatus, Written, Entry!Next, Entry!End
<1> QED
  BY <1>2, <1>3, <1>4, <1>5

(* Every step of the constellation is, for each satellite, one that        *)
(* Registration allows or that it does not see.                            *)
LEMMA NextEntries ==
  TypeOK /\ Registered /\ [Next]_vars =>
    /\ Registered'
    /\ \A r \in Satellites : [Entry(r)!Next]_(Entry(r)!vars)
<1> SUFFICES ASSUME TypeOK, Registered, [Next]_vars,
                    NEW r \in Satellites
             PROVE  /\ run'[r] > 0 => Len(log'[Current(r)']) > 0
                    /\ Entry(r)!Next \/ UNCHANGED <<state[r], run[r], LastStatus(r)>>
  BY DEF Registered, Entry!vars
<1>1. CASE SatelliteStep
  <2>1. PICK s \in Satellites :
          Join(s) \/ Heartbeat(s) \/ GoOffline(s) \/ Stop(s) \/ Crash(s)
    BY <1>1 DEF SatelliteStep
  <2>2. CASE r = s
    BY <2>1, <2>2, OwnEntry
  <2>3. CASE r # s
    BY <2>1, <2>3, OthersEntries DEF Registered
  <2> QED
    BY <2>2, <2>3
<1>2. CASE ~SatelliteStep
  <2>1. UNCHANGED sats
    BY <1>2 DEF Next, Tick, StationStops, Replication, Pass, Download,
                MissionControl, MCStart, SyncFinished, PendingContentReady,
                StreamEnds, Discover, Select, vars
  <2> QED
    BY <2>1 DEF sats, Registered, LastStatus, Written, Current
<1> QED
  BY <1>1, <1>2

(* Each satellite of the constellation implements Registration, for any    *)
(* number of satellites, runs and writes.                                  *)
THEOREM AllKeepTheirWordHolds == Spec => AllKeepTheirWord
<1>1. Init => Registered /\ \A s \in Satellites : Entry(s)!Init
  BY DEF Init, Registered, Entry!Init, LastStatus
<1>2. TypeOK /\ Registered /\ [Next]_vars =>
        /\ Registered'
        /\ [\A s \in Satellites : [Entry(s)!Next]_(Entry(s)!vars)]_vars
  BY NextEntries
<1> QED
  BY <1>1, <1>2, TypeCorrect, PTL DEF Spec, AllKeepTheirWord

-----------------------------------------------------------------------------
(* What Select does is what Selection computes step by step.               *)

Wanted == <<"linux", "amd64">>

(* The entry discover_satellites returns for an author it could read. *)
EntryOf(a) ==
  [native_arch |-> IF a[1] \in Native THEN "amd64" ELSE "arm64",
   platforms |-> {Wanted}, status |-> found[a].status,
   registered_at |-> found[a].registered_at]

(* Selection over the authors of doc, in document order. *)
Scan(doc) == INSTANCE Selection WITH
               Platforms <- {Wanted}, Archs <- {"amd64", "arm64"},
               Requests <- {}, Documents <- {},
               items <- <<Wanted>>, pc <- "native", platforms <- <<Wanted>>,
               k <- 1, i <- 1, best <- 0, bridges <- <<>>,
               entries <- [j \in 1 .. Len(doc) |-> EntryOf(doc[j])]

(* doc lists the authors that discovery could read. *)
IsDocument(doc) ==
  /\ doc \in Seq(Authors)
  /\ \A a \in Authors : found[a] # None => \E j \in 1 .. Len(doc) : doc[j] = a

(* The entries that Selection considers are those of the eligible authors. *)
LEMMA CandidatesEligible ==
  ASSUME TypeOK, NEW doc, IsDocument(doc)
  PROVE  /\ \A j \in Scan(doc)!Candidates(Wanted) :
              j \in 1 .. Len(doc) /\ doc[j] \in Eligible
         /\ \A a \in Eligible :
              \E j \in Scan(doc)!Candidates(Wanted) : doc[j] = a
<1> DEFINE Idle(kind) == {j \in 1 .. Len(doc) :
                            found[doc[j]].status = "idle" /\ doc[j][1] \in kind}
<1>1. \A j \in 1 .. Len(doc) :
        doc[j] \in Authors /\ doc[j][1] \in Native \cup Emulated
  BY DEF IsDocument, Authors, Satellites
<1>2. Len([j \in 1 .. Len(doc) |-> EntryOf(doc[j])]) = Len(doc)
  BY DEF IsDocument
<1>3. Scan(doc)!Native(Wanted) = Idle(Native)
  BY <1>1, <1>2
     DEF Scan!Native, Scan!IsNative, Scan!PlatformToArch, EntryOf, Wanted
<1>4. Scan(doc)!Emulating(Wanted) = Idle(Native \cup Emulated)
  BY <1>1, <1>2 DEF Scan!Emulating, Scan!Emulates, EntryOf
<1>5. Scan(doc)!Candidates(Wanted) =
        IF Idle(Native) # {} THEN Idle(Native) ELSE Idle(Emulated)
  BY <1>3, <1>4 DEF Scan!Candidates
<1>6. \A kind : /\ \A j \in Idle(kind) : doc[j] \in IdleOf(kind)
                /\ \A a \in IdleOf(kind) : \E j \in Idle(kind) : doc[j] = a
  <2>1. ASSUME NEW kind, NEW a \in IdleOf(kind)
        PROVE  \E j \in Idle(kind) : doc[j] = a
    <3>1. a \in Authors /\ found[a].status = "idle" /\ a[1] \in kind
      BY <2>1 DEF IdleOf
    <3>2. found[a] # None
      BY <3>1 DEF None
    <3> QED
      BY <3>1, <3>2 DEF IsDocument
  <2> QED
    BY <1>1, <2>1 DEF IdleOf
<1>7. Idle(Native) # {} <=> IdleOf(Native) # {}
  BY <1>6
<1> HIDE DEF Idle
<1>8. CASE IdleOf(Native) # {}
  BY <1>5, <1>6, <1>7, <1>8 DEF Eligible, Idle
<1>9. CASE IdleOf(Native) = {}
  BY <1>5, <1>6, <1>7, <1>9 DEF Eligible, Idle
<1> QED
  BY <1>8, <1>9

(* The satellite that Selection computes for the discovered entries is one *)
(* that Select may choose, and it computes none just when Select bails: a  *)
(* run of mission control here is one of Selection on what it discovered.  *)
THEOREM SelectIsSelection ==
  ASSUME TypeOK, NEW doc, IsDocument(doc)
  PROVE  /\ Scan(doc)!Candidates(Wanted) = {} <=> Eligible = {}
         /\ \A j : Scan(doc)!IsBest(j, Scan(doc)!Candidates(Wanted)) =>
                     doc[j] \in Eligible /\ MostRecent(doc[j])
<1>1. Scan(doc)!Candidates(Wanted) = {} <=> Eligible = {}
  BY CandidatesEligible
<1>2. ASSUME NEW j, Scan(doc)!IsBest(j, Scan(doc)!Candidates(Wanted))
      PROVE  doc[j] \in Eligible /\ MostRecent(doc[j])
  <2>1. j \in 1 .. Len(doc) /\ doc[j] \in Eligible
    BY <1>2, CandidatesEligible DEF Scan!IsBest
  <2>2. ASSUME NEW a \in Eligible
        PROVE  found[a].registered_at <= found[doc[j]].registered_at
    <3>1. PICK m \in Scan(doc)!Candidates(Wanted) : doc[m] = a
      BY <2>2, CandidatesEligible
    <3>2. m \in 1 .. Len(doc)
      BY <3>1, CandidatesEligible
    <3>3. found[a].registered_at \in Nat /\ found[doc[j]].registered_at \in Nat
      <4>1. \A b \in Eligible : b \in Authors /\ found[b].status = "idle"
        BY DEF Eligible, IdleOf
      <4>2. \A b \in Eligible : found[b] \in Values
        BY <4>1 DEF TypeOK, None
      <4> QED
        BY <2>1, <2>2, <4>2, Bounds DEF Values
    <3>4. \/ EntryOf(doc[m]).registered_at < EntryOf(doc[j]).registered_at
          \/ EntryOf(doc[m]).registered_at = EntryOf(doc[j]).registered_at
      BY <1>2, <2>1, <3>1, <3>2 DEF Scan!IsBest
    <3> QED
      BY <3>1, <3>3, <3>4 DEF EntryOf
  <2> QED
    BY <2>1, <2>2 DEF MostRecent
<1> QED
  BY <1>1, <1>2
=============================================================================
