------------------------- MODULE EventStreamProofs -------------------------
(***************************************************************************)
(* For any number of events in any order: the types, that a command stops  *)
(* waiting at the right event (WaitExact), and that mission control's task *)
(* reports what was read while waiting, once each and in order             *)
(* (ReplayExact).                                                          *)
(***************************************************************************)
EXTENDS EventStream, TLAPS

(* got_sync_finished tells whether a SyncFinished was read. *)
SyncedOK == synced <=> \E i \in 1 .. taken : emitted[i] = "sync"

Increasing(s) == \A m, n \in 1 .. Len(s) : m < n => s[m] < s[n]

(* Mission control keeps every event it reads but the errors; fleet keeps  *)
(* nothing and has no task.                                                *)
BufferedOK ==
  /\ Increasing(buffered)
  /\ role = "fleet" => /\ buffered = <<>> /\ monitor = "none"
                       /\ pc \notin {"bridging", "monitoring"}
  /\ role # "fleet" =>
       \A i \in 1 .. taken :
         emitted[i] # "error" => \E n \in 1 .. Len(buffered) : buffered[n] = i

(* What the task has reported comes before what it has yet to read, and    *)
(* both together hold every update.                                        *)
MonitorOK ==
  /\ Increasing(stream)
  /\ Increasing(reported)
  /\ \A n \in 1 .. Len(reported) : n <= reported[n]
  /\ \A n \in 1 .. Len(reported) : emitted[reported[n]] = "update"
  /\ \A m \in 1 .. Len(reported), n \in 1 .. Len(stream) : reported[m] < stream[n]
  /\ monitor = "none" => stream = <<>> /\ reported = <<>>
  /\ monitor = "reading" => emitted[stream[1]] = "update"
  /\ monitor # "none" =>
       \A i \in 1 .. taken :
         emitted[i] = "update" =>
           Reported(i) \/ \E n \in 1 .. Len(stream) : stream[n] = i
  /\ monitor = "ended" => stream = <<>>
  /\ pc \in {"waiting", "bridging"} => monitor = "none"
  /\ pc = "monitoring" => monitor # "none"

EInv == TypeOK /\ SyncedOK /\ WaitExact /\ BufferedOK /\ MonitorOK

-----------------------------------------------------------------------------
(* Sequences.                                                              *)

LEMMA AppendFacts ==
  ASSUME NEW S, NEW s \in Seq(S), NEW e \in S
  PROVE  /\ Append(s, e) \in Seq(S)
         /\ Len(s) \in Nat
         /\ Len(Append(s, e)) = Len(s) + 1
         /\ Append(s, e)[Len(s) + 1] = e
         /\ \A i \in 1 .. Len(s) : Append(s, e)[i] = s[i]
  OBVIOUS

LEMMA MemberFacts ==
  ASSUME NEW S, NEW s \in Seq(S)
  PROVE  \A i \in 1 .. Len(s) : s[i] \in S
  OBVIOUS

LEMMA TailFacts ==
  ASSUME NEW S, NEW s \in Seq(S), s # <<>>
  PROVE  /\ Tail(s) \in Seq(S)
         /\ Len(s) \in Nat \ {0}
         /\ Len(Tail(s)) = Len(s) - 1
         /\ Head(s) = s[1] /\ s[1] \in S
         /\ \A i \in 1 .. Len(s) - 1 : Tail(s)[i] = s[i + 1]
  OBVIOUS

(* Numbers of events that were read stay so when another is read. *)
LEMMA SeqGrows ==
  ASSUME NEW n \in Nat, NEW s \in Seq(1 .. n)
  PROVE  s \in Seq(1 .. n + 1)
<1>1. \A i \in 1 .. Len(s) : s[i] \in 1 .. n + 1
  <2>1. \A i \in 1 .. Len(s) : s[i] \in 1 .. n
    OBVIOUS
  <2> QED
    BY <2>1
<1> QED
  BY <1>1

(* An increasing sequence that gets a larger last member. *)
LEMMA IncreasingAppend ==
  ASSUME NEW n \in Nat, NEW s \in Seq(1 .. n), NEW e \in 1 .. n + 1,
         Increasing(s), \A i \in 1 .. Len(s) : s[i] < e
  PROVE  Increasing(Append(s, e))
<1>1. s \in Seq(1 .. n + 1)
  BY SeqGrows
<1> DEFINE a == Append(s, e)
<1>2. /\ Len(s) \in Nat
      /\ Len(a) = Len(s) + 1
      /\ a[Len(s) + 1] = e
      /\ \A i \in 1 .. Len(s) : a[i] = s[i]
  BY <1>1, AppendFacts
<1> HIDE DEF a
<1>3. ASSUME NEW k \in 1 .. Len(a), NEW m \in 1 .. Len(a), k < m
      PROVE  a[k] < a[m]
  <2>1. k \in 1 .. Len(s)
    BY <1>2, <1>3
  <2>2. CASE m = Len(s) + 1
    BY <1>2, <2>1, <2>2
  <2>3. CASE m # Len(s) + 1
    <3>1. m \in 1 .. Len(s)
      BY <1>2, <2>3
    <3> QED
      BY <1>2, <1>3, <2>1, <3>1 DEF Increasing
  <2> QED
    BY <2>2, <2>3
<1> QED
  BY <1>3 DEF Increasing, a

-----------------------------------------------------------------------------
LEMMA InitEInv == Init => EInv
<1> SUFFICES ASSUME Init PROVE EInv
  OBVIOUS
<1>1. TypeOK
  <2>1. \A S : <<>> \in Seq(S)
    OBVIOUS
  <2>2. Len(<<>>) = 0 /\ 0 \in 0 .. 0
    OBVIOUS
  <2>3. /\ Len(emitted) = 0 /\ taken \in 0 .. Len(emitted)
        /\ Len(emitted) <= MaxEvents /\ Len(reported) <= taken
    BY <2>2, EventBound DEF Init
  <2> QED
    BY <2>1, <2>3 DEF Init, TypeOK
<1>2. SyncedOK /\ WaitExact
  BY DEF Init, SyncedOK, WaitExact
<1>3. BufferedOK /\ MonitorOK
  BY DEF Init, BufferedOK, MonitorOK, Increasing
<1> QED
  BY <1>1, <1>2, <1>3 DEF EInv

(* A new event changes nothing of those that were read. *)
LEMMA EmitKeeps == ASSUME EInv, Emit PROVE EInv'
<1> USE DEF Emit
<1>1. PICK k \in Kind : emitted' = Append(emitted, k)
  OBVIOUS
<1>2. /\ emitted' \in Seq(Kind) /\ Len(emitted) \in Nat
      /\ Len(emitted') = Len(emitted) + 1
      /\ \A i \in 1 .. Len(emitted) : emitted'[i] = emitted[i]
  BY <1>1, AppendFacts DEF EInv, TypeOK
<1>3. taken \in Nat /\ taken <= Len(emitted) /\ \A i \in 1 .. taken : emitted'[i] = emitted[i]
  BY <1>2 DEF EInv, TypeOK
<1>4. UNCHANGED <<role, pc, closed, taken, synced, buffered, monitor, stream, reported>>
  BY DEF waiting, task
<1>5. TypeOK'
  BY <1>2, <1>3, <1>4, EventBound DEF EInv, TypeOK
<1>6. SyncedOK'
  BY <1>3, <1>4 DEF EInv, SyncedOK
<1>7. WaitExact'
  <2>1. \A n \in 1 .. taken : Ends(n)' <=> Ends(n)
    BY <1>3 DEF Ends
  <2>2. ~closed
    OBVIOUS
  <2> QED
    BY <1>3, <1>4, <2>1, <2>2 DEF EInv, WaitExact
<1>8. BufferedOK'
  BY <1>3, <1>4 DEF EInv, BufferedOK
<1>9. MonitorOK'
  <2>1. /\ \A n \in 1 .. Len(reported) : reported[n] \in 1 .. taken
        /\ \A n \in 1 .. Len(stream) : stream[n] \in 1 .. taken
        /\ stream # <<>> => Len(stream) \in Nat \ {0}
    BY DEF EInv, TypeOK
  <2>2. \A n \in 1 .. Len(reported) : emitted'[reported[n]] = "update"
    BY <1>3, <2>1 DEF EInv, MonitorOK
  <2>3. monitor = "reading" => emitted'[stream[1]] = "update"
    BY <1>3, <2>1 DEF EInv, TypeOK, MonitorOK
  <2>4. \A i \in 1 .. taken : Reported(i)' <=> Reported(i)
    BY <1>4 DEF Reported
  <2> QED
    BY <1>3, <1>4, <2>2, <2>3, <2>4 DEF EInv, MonitorOK
<1> QED
  BY <1>5, <1>6, <1>7, <1>8, <1>9 DEF EInv

-----------------------------------------------------------------------------
(* wait_for_sync.                                                          *)

(* The event that is read is the first that may end the wait. *)
LEMMA ReadFacts ==
  ASSUME EInv, NEW k \in Kind, Reads(k), UNCHANGED source
  PROVE  /\ taken \in Nat /\ taken' = taken + 1 /\ taken' \in 0 .. Len(emitted)
         /\ emitted[taken + 1] = k
         /\ \A n \in 1 .. taken : ~Ends(n)
         /\ Ends(taken + 1) <=> k = "pending" /\ synced
         /\ \A n \in 1 .. taken + 1 : Ends(n)' <=> Ends(n)
         /\ pc = "waiting" /\ monitor = "none"
         /\ stream = <<>> /\ reported = <<>>
<1>1. /\ taken \in Nat /\ taken' = taken + 1 /\ taken' \in 0 .. Len(emitted)
      /\ emitted[taken + 1] = k /\ pc = "waiting"
  BY DEF EInv, TypeOK, Reads
<1>2. \A n \in 1 .. taken : ~Ends(n)
  BY <1>1 DEF EInv, WaitExact
<1>3. Ends(taken + 1) <=> k = "pending" /\ synced
  BY <1>1 DEF Ends, EInv, SyncedOK
<1>4. \A n \in 1 .. taken + 1 : Ends(n)' <=> Ends(n)
  BY DEF Ends, source
<1>5. monitor = "none" /\ stream = <<>> /\ reported = <<>>
  BY <1>1 DEF EInv, MonitorOK
<1> QED
  BY <1>1, <1>2, <1>3, <1>4, <1>5

(* What is kept when an event is read. *)
LEMMA ReadBuffered ==
  ASSUME EInv, NEW k \in Kind, Reads(k), UNCHANGED <<role, source, task>>,
         Keep \/ (k = "error" /\ UNCHANGED buffered),
         Return \/ UNCHANGED pc
  PROVE  buffered' \in Seq(1 .. taken') /\ BufferedOK'
<1> DEFINE n == taken + 1
<1>1. /\ taken \in Nat /\ taken' = n /\ emitted[n] = k /\ pc = "waiting"
      /\ monitor = "none"
  BY ReadFacts
<1>2. UNCHANGED <<role, emitted, monitor>>
  BY DEF source, task
<1>3. buffered \in Seq(1 .. taken) /\ buffered \in Seq(1 .. n)
  BY <1>1, SeqGrows DEF EInv, TypeOK
<1>4. role = "fleet" => pc' \notin {"bridging", "monitoring"}
  BY <1>1 DEF Return
<1>5. CASE UNCHANGED buffered
  <2>1. role # "fleet" => k = "error"
    <3>1. CASE Keep /\ role # "fleet"
      <4>1. Len(Append(buffered, n)) = Len(buffered) + 1 /\ Len(buffered) \in Nat
        BY <1>1, <1>3, AppendFacts
      <4>2. buffered' = Append(buffered, n)
        BY <3>1 DEF Keep
      <4> QED
        BY <1>5, <4>1, <4>2
    <3> QED
      BY <3>1
  <2>2. role # "fleet" =>
          \A i \in 1 .. n :
            emitted[i] # "error" => \E m \in 1 .. Len(buffered) : buffered[m] = i
    BY <1>1, <2>1 DEF EInv, BufferedOK
  <2> QED
    BY <1>1, <1>2, <1>3, <1>4, <1>5, <2>2 DEF EInv, BufferedOK
<1>6. CASE role # "fleet" /\ buffered' = Append(buffered, n)
  <2>1. n \in 1 .. n
    BY <1>1
  <2>2. /\ buffered' \in Seq(1 .. n)
        /\ Len(buffered) \in Nat /\ Len(buffered') = Len(buffered) + 1
        /\ buffered'[Len(buffered) + 1] = n
        /\ \A i \in 1 .. Len(buffered) : buffered'[i] = buffered[i]
    BY <1>3, <1>6, <2>1, AppendFacts
  <2>3. \A i \in 1 .. Len(buffered) : buffered[i] \in 1 .. taken
    BY <1>3, MemberFacts
  <2>4. \A i \in 1 .. Len(buffered) : buffered[i] < n
    BY <1>1, <2>3
  <2>5. Increasing(buffered')
    BY <1>1, <1>3, <1>6, <2>1, <2>4, IncreasingAppend DEF EInv, BufferedOK
  <2>6. \A i \in 1 .. n :
          emitted[i] # "error" => \E m \in 1 .. Len(buffered') : buffered'[m] = i
    <3> SUFFICES ASSUME NEW i \in 1 .. n, emitted[i] # "error"
                 PROVE  \E m \in 1 .. Len(buffered') : buffered'[m] = i
      OBVIOUS
    <3>1. CASE i = n
      BY <2>2, <3>1
    <3>2. CASE i # n
      <4>1. i \in 1 .. taken
        BY <1>1, <3>2
      <4>2. PICK m \in 1 .. Len(buffered) : buffered[m] = i
        BY <1>6, <4>1 DEF EInv, BufferedOK
      <4> QED
        BY <2>2, <4>2
    <3> QED
      BY <3>1, <3>2
  <2>7. Increasing(buffered)'
    BY <2>5 DEF Increasing
  <2> QED
    BY <1>1, <1>2, <1>6, <2>2, <2>6, <2>7 DEF BufferedOK
<1> QED
  BY <1>5, <1>6 DEF Keep

LEMMA WaitKeeps == ASSUME EInv, WaitForSync PROVE EInv'
<1>1. ASSUME NEW k \in Kind, Reads(k), UNCHANGED <<role, source, task>>,
             Keep \/ (k = "error" /\ UNCHANGED buffered),
             synced' = (synced \/ k = "sync"),
             IF k = "pending" /\ synced THEN Return ELSE UNCHANGED pc
      PROVE  EInv'
  <2>1. UNCHANGED source
    BY <1>1
  <2>2. /\ taken \in Nat /\ taken' = taken + 1 /\ taken' \in 0 .. Len(emitted)
        /\ emitted[taken + 1] = k
        /\ \A n \in 1 .. taken : ~Ends(n)
        /\ Ends(taken + 1) <=> k = "pending" /\ synced
        /\ \A n \in 1 .. taken + 1 : Ends(n)' <=> Ends(n)
        /\ pc = "waiting" /\ monitor = "none"
        /\ stream = <<>> /\ reported = <<>>
    BY <1>1, <2>1, ReadFacts
  <2>3. buffered' \in Seq(1 .. taken') /\ BufferedOK'
    BY <1>1, ReadBuffered
  <2>4. UNCHANGED <<role, emitted, closed, monitor, stream, reported>>
    BY <1>1 DEF source, task
  <2>5. pc' \in {"waiting", "listing", "bridging"}
    BY <1>1, <2>2 DEF Return
  <2>6. TypeOK'
    <3>1. stream' \in Seq(1 .. taken') /\ reported' \in Seq(1 .. taken')
      BY <2>2, <2>4 DEF EInv, TypeOK
    <3>2. Len(reported') <= taken' /\ synced' \in BOOLEAN
      BY <1>1, <2>2, <2>4 DEF EInv, TypeOK
    <3> QED
      BY <2>2, <2>3, <2>4, <2>5, <3>1, <3>2 DEF EInv, TypeOK
  <2>7. SyncedOK'
    <3>1. synced <=> \E i \in 1 .. taken : emitted[i] = "sync"
      BY DEF EInv, SyncedOK
    <3>2. (\E i \in 1 .. taken + 1 : emitted[i] = "sync") <=> synced \/ k = "sync"
      BY <2>2, <3>1
    <3> QED
      BY <1>1, <2>2, <2>4, <3>2 DEF SyncedOK
  <2>8. WaitExact'
    <3>1. PICK m \in Nat : m = taken + 1
      BY <2>2
    <3>2. /\ taken' = m /\ m > 0
          /\ \A n \in 1 .. m : (Ends(n)' <=> Ends(n)) /\ (n # m => ~Ends(n))
          /\ Ends(m) <=> k = "pending" /\ synced
      BY <2>2, <3>1
    <3>3. pc' = "waiting" <=> ~Ends(m)
      BY <1>1, <2>2, <3>2 DEF Return
    <3>4. Ends(m)' <=> Ends(m)
      BY <3>2
    <3>5. Ends(taken)' <=> Ends(m)'
      BY <3>2 DEF Ends
    <3> QED
      BY <3>2, <3>3, <3>4, <3>5 DEF WaitExact
  <2>9. MonitorOK'
    BY <2>2, <2>4, <2>5 DEF MonitorOK, Increasing
  <2> QED
    BY <2>3, <2>6, <2>7, <2>8, <2>9 DEF EInv
<1>2. synced \in BOOLEAN
  BY DEF EInv, TypeOK
<1>3. CASE TakeError
  BY <1>1, <1>2, <1>3 DEF TakeError, Kind
<1>4. CASE TakeOther
  BY <1>1, <1>2, <1>4 DEF TakeOther, Kind
<1>5. CASE TakeSync
  BY <1>1, <1>2, <1>5 DEF TakeSync, Kind
<1>6. CASE TakePending
  BY <1>1, <1>2, <1>6 DEF TakePending, Kind
<1>7. CASE TakePendingReturns
  BY <1>1, <1>2, <1>7 DEF TakePendingReturns, Kind
<1>8. CASE StreamEnds
  <2>1. /\ pc = "waiting" /\ closed /\ taken = Len(emitted)
        /\ pc' \in {"listing", "bridging"}
        /\ role = "fleet" => pc' = "listing"
        /\ UNCHANGED <<role, emitted, closed, taken, synced, buffered, monitor,
                       stream, reported>>
    BY <1>8 DEF StreamEnds, Return, source, waiting, task
  <2>2. \A n \in 1 .. taken : Ends(n)' <=> Ends(n)
    BY <2>1 DEF Ends
  <2>3. WaitExact'
    BY <2>1, <2>2 DEF EInv, WaitExact
  <2>4. TypeOK' /\ SyncedOK'
    BY <2>1 DEF EInv, TypeOK, SyncedOK
  <2>5. BufferedOK'
    BY <2>1 DEF EInv, BufferedOK
  <2>6. MonitorOK'
    BY <2>1 DEF EInv, MonitorOK, Reported
  <2> QED
    BY <2>3, <2>4, <2>5, <2>6 DEF EInv
<1> QED
  BY <1>3, <1>4, <1>5, <1>6, <1>7, <1>8 DEF WaitForSync

-----------------------------------------------------------------------------
(* The rest of the commands.                                               *)

(* Steps that read no event leave the wait as it was. *)
LEMMA WaitSame ==
  ASSUME EInv, UNCHANGED <<source, taken, synced>>,
         pc' \in {"waiting", "listing", "bridging", "monitoring", "stopped"} =>
           pc # "killed" /\ (pc' = "waiting" <=> pc = "waiting"),
         pc = "killed" => pc' = "killed",
         pc' = "waiting" => pc = "waiting"
  PROVE  SyncedOK' /\ WaitExact'
<1>1. \A n \in 1 .. taken : Ends(n)' <=> Ends(n)
  BY DEF Ends, source
<1>2. SyncedOK'
  BY DEF EInv, SyncedOK, source
<1>3. UNCHANGED <<closed, emitted>>
  BY DEF source
<1>4. taken \in Nat
  BY DEF EInv, TypeOK
<1>5. taken > 0 => (Ends(taken)' <=> Ends(taken))
  BY <1>3 DEF Ends
<1>6. \A n \in 1 .. taken : Ends(n)' => n = taken /\ pc' # "waiting"
  BY <1>1 DEF EInv, WaitExact
<1>7. pc \in {"waiting", "listing", "bridging", "monitoring", "stopped", "killed"}
  BY DEF EInv, TypeOK
<1>8. pc' \in {"listing", "bridging", "monitoring", "stopped"} =>
         \/ taken > 0 /\ Ends(taken)
         \/ closed /\ taken = Len(emitted)
  BY <1>7 DEF EInv, WaitExact
<1> QED
  BY <1>2, <1>3, <1>5, <1>6, <1>8 DEF WaitExact

LEMMA MainKeeps ==
  ASSUME EInv, List \/ Bail \/ SpawnMonitor \/ CtrlC \/ Kill
  PROVE  EInv'
<1>1. /\ UNCHANGED <<role, source, emitted, closed, taken, synced, buffered, reported>>
      /\ pc' \in {"monitoring", "stopped", "killed"}
  BY DEF List, Bail, SpawnMonitor, CtrlC, Kill, source, waiting, task
<1>2. /\ pc = "killed" => FALSE
      /\ pc = "waiting" => pc' = "killed"
  BY DEF List, Bail, SpawnMonitor, CtrlC, Kill
<1>3. SyncedOK' /\ WaitExact'
  <2>1. CASE pc = "waiting"
    <3>1. pc' = "killed"
      BY <1>2, <2>1
    <3>2. \A n \in 1 .. taken : Ends(n)' <=> Ends(n)
      BY <1>1 DEF Ends
    <3> QED
      BY <1>1, <2>1, <3>1, <3>2 DEF EInv, SyncedOK, WaitExact
  <2>2. CASE pc # "waiting"
    BY <1>1, <1>2, <2>2, WaitSame
  <2> QED
    BY <2>1, <2>2
<1>4. CASE SpawnMonitor
  <2>1. /\ pc = "bridging" /\ pc' = "monitoring" /\ monitor' = "idle"
        /\ stream' = buffered
    BY <1>4 DEF SpawnMonitor
  <2>2. role # "fleet" /\ monitor = "none" /\ reported = <<>>
    BY <2>1 DEF EInv, BufferedOK, MonitorOK
  <2>3. TypeOK'
    BY <1>1, <2>1 DEF EInv, TypeOK
  <2>4. BufferedOK'
    BY <1>1, <2>1, <2>2 DEF EInv, BufferedOK
  <2>5. MonitorOK'
    <3>1. \A i \in 1 .. taken :
            emitted[i] = "update" => \E n \in 1 .. Len(buffered) : buffered[n] = i
      BY <2>2 DEF EInv, BufferedOK
    <3>2. Increasing(buffered)
      BY DEF EInv, BufferedOK
    <3> QED
      BY <1>1, <2>1, <2>2, <3>1, <3>2 DEF MonitorOK, Increasing
  <2> QED
    BY <1>3, <2>3, <2>4, <2>5 DEF EInv
<1>5. CASE List \/ Bail \/ CtrlC \/ Kill
  <2>1. /\ UNCHANGED stream
        /\ pc' \in {"stopped", "killed"}
        /\ \/ monitor' = monitor
           \/ monitor' = "aborted" /\ monitor # "none"
    <3>1. CASE List \/ Bail
      BY <3>1 DEF List, Bail, task
    <3>2. CASE CtrlC
      BY <3>2 DEF CtrlC, EInv, MonitorOK
    <3>3. CASE Kill
      BY <3>3 DEF Kill
    <3> QED
      BY <1>5, <3>1, <3>2, <3>3
  <2>2. TypeOK'
    BY <1>1, <2>1 DEF EInv, TypeOK
  <2>3. BufferedOK'
    BY <1>1, <2>1 DEF EInv, BufferedOK
  <2>4. MonitorOK'
    BY <1>1, <2>1 DEF EInv, MonitorOK, Reported
  <2> QED
    BY <1>3, <2>2, <2>3, <2>4 DEF EInv
<1> QED
  BY <1>4, <1>5

-----------------------------------------------------------------------------
(* The subscription task.                                                  *)

(* Its stream without its first event. *)
LEMMA StreamTail ==
  ASSUME EInv, stream # <<>>
  PROVE  /\ Tail(stream) \in Seq(1 .. taken)
         /\ Increasing(Tail(stream))
         /\ Head(stream) = stream[1] /\ Head(stream) \in 1 .. taken
         /\ \A n \in 1 .. Len(Tail(stream)) :
              /\ Head(stream) < Tail(stream)[n]
              /\ \E m \in 1 .. Len(stream) : Tail(stream)[n] = stream[m]
         /\ \A n \in 1 .. Len(stream) :
              stream[n] = Head(stream) \/ \E m \in 1 .. Len(Tail(stream)) :
                                            Tail(stream)[m] = stream[n]
<1> DEFINE t == Tail(stream)
<1>1. stream \in Seq(1 .. taken)
  BY DEF EInv, TypeOK
<1>2. /\ t \in Seq(1 .. taken)
      /\ Len(stream) \in Nat \ {0} /\ Len(t) = Len(stream) - 1
      /\ Head(stream) = stream[1] /\ stream[1] \in 1 .. taken
      /\ \A i \in 1 .. Len(stream) - 1 : t[i] = stream[i + 1]
  BY <1>1, TailFacts
<1> HIDE DEF t
<1>3. \A m, n \in 1 .. Len(stream) : m < n => stream[m] < stream[n]
  BY DEF EInv, MonitorOK, Increasing
<1>4. ASSUME NEW n \in 1 .. Len(t)
      PROVE  /\ n + 1 \in 1 .. Len(stream) /\ t[n] = stream[n + 1]
             /\ stream[1] < t[n]
  <2>1. n + 1 \in 1 .. Len(stream) /\ 1 \in 1 .. Len(stream) /\ 1 < n + 1
    BY <1>2, <1>4
  <2>2. t[n] = stream[n + 1]
    BY <1>2, <1>4
  <2> QED
    BY <1>3, <2>1, <2>2
<1>5. ASSUME NEW m \in 1 .. Len(t), NEW n \in 1 .. Len(t), m < n
      PROVE  t[m] < t[n]
  <2>1. m + 1 < n + 1
    BY <1>2, <1>5
  <2> QED
    BY <1>3, <1>4, <2>1
<1>6. ASSUME NEW n \in 1 .. Len(stream), n # 1
      PROVE  \E m \in 1 .. Len(t) : t[m] = stream[n]
  <2>1. n - 1 \in 1 .. Len(t) /\ (n - 1) + 1 = n
    BY <1>2, <1>6
  <2> QED
    BY <1>2, <2>1
<1> QED
  BY <1>2, <1>4, <1>5, <1>6 DEF Increasing, t

LEMMA MonitorKeeps == ASSUME EInv, Monitor PROVE EInv'
<1>1. UNCHANGED <<role, pc, emitted, closed, source, taken, synced, buffered>>
  BY DEF Monitor, MonitorSkip, MonitorRead, MonitorReport, MonitorEnds, source, waiting
<1>2. SyncedOK' /\ WaitExact'
  BY <1>1, WaitSame
<1>3. monitor # "none" /\ monitor' # "none"
  BY DEF Monitor, MonitorSkip, MonitorRead, MonitorReport, MonitorEnds
<1>4. BufferedOK'
  BY <1>1, <1>3 DEF EInv, BufferedOK
<1>5. pc \notin {"waiting", "bridging"}
  BY <1>3 DEF EInv, MonitorOK
<1>6. CASE MonitorRead
  <2>1. /\ stream # <<>> /\ emitted[Head(stream)] = "update" /\ monitor' = "reading"
        /\ UNCHANGED <<stream, reported>>
    BY <1>6 DEF MonitorRead
  <2>2. Head(stream) = stream[1]
    BY <2>1, StreamTail
  <2>3. TypeOK'
    BY <1>1, <2>1 DEF EInv, TypeOK
  <2>4. MonitorOK'
    BY <1>1, <1>3, <1>5, <2>1, <2>2 DEF EInv, MonitorOK, Reported
  <2> QED
    BY <1>2, <1>4, <2>3, <2>4 DEF EInv
<1>7. CASE MonitorEnds
  <2>1. TypeOK'
    BY <1>1, <1>7 DEF MonitorEnds, EInv, TypeOK
  <2>2. MonitorOK'
    BY <1>1, <1>3, <1>5, <1>7 DEF MonitorEnds, EInv, MonitorOK, Reported
  <2> QED
    BY <1>2, <1>4, <2>1, <2>2 DEF EInv
<1>8. CASE MonitorSkip
  <2>1. /\ stream # <<>> /\ emitted[Head(stream)] # "update" /\ monitor = "idle"
        /\ stream' = Tail(stream) /\ UNCHANGED <<monitor, reported>>
    BY <1>8 DEF MonitorSkip
  <2>2. TypeOK'
    BY <1>1, <2>1, StreamTail DEF EInv, TypeOK
  <2>3. \A m \in 1 .. Len(reported), n \in 1 .. Len(stream') :
          reported[m] < stream'[n]
    BY <2>1, StreamTail DEF EInv, MonitorOK
  <2>4. \A i \in 1 .. taken :
          emitted[i] = "update" =>
            Reported(i) \/ \E n \in 1 .. Len(stream') : stream'[n] = i
    <3> SUFFICES ASSUME NEW i \in 1 .. taken, emitted[i] = "update", ~Reported(i)
                 PROVE  \E n \in 1 .. Len(stream') : stream'[n] = i
      OBVIOUS
    <3>1. PICK n \in 1 .. Len(stream) : stream[n] = i
      BY <1>3 DEF EInv, MonitorOK
    <3>2. stream[n] # Head(stream)
      BY <2>1, <3>1
    <3> QED
      BY <2>1, <3>1, <3>2, StreamTail
  <2>5. Increasing(stream)'
    BY <2>1, StreamTail DEF Increasing
  <2>6. \A i : Reported(i)' <=> Reported(i)
    BY <2>1 DEF Reported
  <2>7. MonitorOK'
    BY <1>1, <1>3, <1>5, <2>1, <2>3, <2>4, <2>5, <2>6 DEF EInv, MonitorOK, Increasing
  <2> QED
    BY <1>2, <1>4, <2>2, <2>7 DEF EInv
<1>9. CASE MonitorReport
  <2> DEFINE e == Head(stream)
             l == Len(reported)
  <2>1. /\ monitor = "reading" /\ monitor' = "idle" /\ stream # <<>>
        /\ reported' = Append(reported, e) /\ stream' = Tail(stream)
    BY <1>9 DEF MonitorReport, EInv, TypeOK
  <2>2. e \in 1 .. taken /\ taken \in Nat /\ e = stream[1] /\ emitted[e] = "update"
    BY <2>1, StreamTail DEF EInv, TypeOK, MonitorOK
  <2>3. Len(stream) \in Nat \ {0}
    BY <2>1 DEF EInv, TypeOK
  <2>4. \A m \in 1 .. l : reported[m] < e
    BY <2>2, <2>3 DEF EInv, MonitorOK
  <2> HIDE DEF e
  <2>5. /\ reported' \in Seq(1 .. taken) /\ l \in Nat
        /\ Len(reported') = l + 1 /\ reported'[l + 1] = e
        /\ \A m \in 1 .. l : reported'[m] = reported[m]
    <3>1. reported \in Seq(1 .. taken)
      BY DEF EInv, TypeOK
    <3> QED
      BY <2>1, <2>2, <3>1, AppendFacts
  <2>6. Increasing(reported')
    <3>1. reported \in Seq(1 .. taken) /\ Increasing(reported)
      BY DEF EInv, TypeOK, MonitorOK
    <3>2. e \in 1 .. taken + 1 /\ taken \in Nat
      BY <2>2
    <3>3. \A i \in 1 .. Len(reported) : reported[i] < e
      BY <2>4
    <3>4. Increasing(Append(reported, e))
      BY <3>1, <3>2, <3>3, IncreasingAppend
    <3> QED
      BY <2>1, <3>4
  <2>7. l + 1 <= e
    <3>1. CASE l = 0
      BY <2>2, <3>1
    <3>2. CASE l # 0
      <4>1. l \in 1 .. l
        BY <2>5, <3>2
      <4>2. l <= reported[l]
        BY <4>1 DEF EInv, MonitorOK
      <4>3. reported[l] < e
        BY <2>4, <4>1
      <4>4. reported[l] \in 1 .. taken
        <5>1. reported \in Seq(1 .. taken)
          BY DEF EInv, TypeOK
        <5> QED
          BY <4>1, <5>1, MemberFacts
      <4> QED
        BY <2>2, <2>5, <4>2, <4>3, <4>4
    <3> QED
      BY <3>1, <3>2
  <2> HIDE DEF l
  <2>8. \A m \in 1 .. Len(reported') : (m \in 1 .. l) \/ m = l + 1
    BY <2>5
  <2>9. TypeOK'
    <3>1. Len(reported') <= taken
      BY <2>2, <2>5, <2>7
    <3>2. stream' \in Seq(1 .. taken)
      BY <2>1, StreamTail
    <3> QED
      BY <1>1, <2>1, <2>5, <3>1, <3>2 DEF EInv, TypeOK
  <2>10. \A m \in 1 .. Len(reported') :
           m <= reported'[m] /\ emitted[reported'[m]] = "update"
    BY <2>2, <2>5, <2>7, <2>8 DEF EInv, MonitorOK, l
  <2>11. \A m \in 1 .. Len(reported'), n \in 1 .. Len(stream') :
           reported'[m] < stream'[n]
    <3> SUFFICES ASSUME NEW m \in 1 .. Len(reported'), NEW n \in 1 .. Len(stream')
                 PROVE  reported'[m] < stream'[n]
      OBVIOUS
    <3>1. /\ e < stream'[n]
          /\ \E k \in 1 .. Len(stream) : stream'[n] = stream[k]
      BY <2>1, StreamTail DEF e
    <3> QED
      BY <2>5, <2>8, <3>1 DEF EInv, MonitorOK, l
  <2>12. \A i \in 1 .. taken :
           emitted[i] = "update" =>
             Reported(i)' \/ \E n \in 1 .. Len(stream') : stream'[n] = i
    <3> SUFFICES ASSUME NEW i \in 1 .. taken, emitted[i] = "update"
                 PROVE  Reported(i)' \/ \E n \in 1 .. Len(stream') : stream'[n] = i
      OBVIOUS
    <3>1. CASE Reported(i)
      <4>1. PICK m \in 1 .. l : reported[m] = i
        BY <3>1 DEF Reported, l
      <4>2. m \in 1 .. Len(reported') /\ reported'[m] = i
        BY <2>5, <4>1
      <4> QED
        BY <4>2 DEF Reported
    <3>2. CASE i = e
      <4>1. l + 1 \in 1 .. Len(reported') /\ reported'[l + 1] = i
        BY <2>5, <3>2
      <4> QED
        BY <4>1 DEF Reported
    <3>3. CASE ~Reported(i) /\ i # e
      <4>1. PICK n \in 1 .. Len(stream) : stream[n] = i
        BY <1>3, <3>3 DEF EInv, MonitorOK
      <4> QED
        BY <2>1, <3>3, <4>1, StreamTail DEF e
    <3> QED
      BY <3>1, <3>2, <3>3
  <2>13. Increasing(stream)' /\ Increasing(reported)'
    BY <2>1, <2>6, StreamTail DEF Increasing
  <2>14. MonitorOK'
    BY <1>1, <1>3, <1>5, <2>1, <2>10, <2>11, <2>12, <2>13 DEF MonitorOK
  <2> QED
    BY <1>2, <1>4, <2>9, <2>14 DEF EInv
<1> QED
  BY <1>6, <1>7, <1>8, <1>9 DEF Monitor

-----------------------------------------------------------------------------
LEMMA NextEInv == EInv /\ [Next]_vars => EInv'
<1> SUFFICES ASSUME EInv, [Next]_vars PROVE EInv'
  OBVIOUS
<1>1. CASE Close \/ UNCHANGED vars
  <2>1. /\ UNCHANGED <<role, pc, emitted, taken, synced, buffered, monitor, stream, reported>>
        /\ closed' = closed \/ closed' = TRUE
    BY <1>1 DEF Close, vars, source, waiting, task
  <2>2. TypeOK' /\ SyncedOK' /\ BufferedOK'
    BY <2>1 DEF EInv, TypeOK, SyncedOK, BufferedOK
  <2>3. MonitorOK'
    BY <2>1 DEF EInv, MonitorOK, Reported
  <2>4. WaitExact'
    <3>1. \A n \in 1 .. taken : Ends(n)' <=> Ends(n)
      BY <2>1 DEF Ends
    <3>2. Ends(taken)' <=> Ends(taken)
      BY <2>1 DEF Ends
    <3>3. closed => closed'
      BY <2>1 DEF EInv, TypeOK
    <3> QED
      BY <2>1, <3>1, <3>2, <3>3 DEF EInv, WaitExact
  <2> QED
    BY <2>2, <2>3, <2>4 DEF EInv
<1> QED
  BY <1>1, EmitKeeps, WaitKeeps, MainKeeps, MonitorKeeps DEF Next

THEOREM Invariance == Spec => []EInv
  BY InitEInv, NextEInv, PTL DEF Spec

(* The events and what both tasks hold of them keep their types, for any   *)
(* number of events.                                                       *)
THEOREM TypeCorrect == Spec => []TypeOK
<1>1. EInv => TypeOK
  BY DEF EInv
<1> QED
  BY <1>1, Invariance, PTL

(* Whatever the order of events and errors, a command goes on at the first *)
(* PendingContentReady after a SyncFinished or when the stream has ended.  *)
THEOREM WaitExactHolds == Spec => []WaitExact
<1>1. EInv => WaitExact
  BY DEF EInv
<1> QED
  BY <1>1, Invariance, PTL

(* The updates read while waiting are reported once each, in order, with   *)
(* none left out, for streams of any length.                               *)
THEOREM ReplayExactHolds == Spec => []ReplayExact
<1>1. EInv => ReplayExact
  <2> SUFFICES ASSUME EInv PROVE ReplayExact
    OBVIOUS
  <2>1. /\ \A m, n \in 1 .. Len(reported) : m < n => reported[m] < reported[n]
        /\ \A n \in 1 .. Len(reported) : emitted[reported[n]] = "update"
    BY DEF EInv, MonitorOK, Increasing
  <2>2. ASSUME NEW i \in 1 .. taken, emitted[i] = "update", ~Reported(i)
        PROVE  monitor # "ended" /\ \A n \in 1 .. Len(reported) : reported[n] < i
    <3>1. CASE monitor = "none"
      BY <3>1 DEF EInv, MonitorOK
    <3>2. CASE monitor # "none"
      <4>1. PICK n \in 1 .. Len(stream) : stream[n] = i
        BY <2>2, <3>2 DEF EInv, MonitorOK
      <4> QED
        BY <4>1 DEF EInv, MonitorOK
    <3> QED
      BY <3>1, <3>2
  <2> QED
    BY <2>1, <2>2 DEF ReplayExact
<1> QED
  BY <1>1, Invariance, PTL
=============================================================================
