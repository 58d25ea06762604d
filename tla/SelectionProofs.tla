-------------------------- MODULE SelectionProofs --------------------------
(***************************************************************************)
(* For every --platforms argument and every list of satellite entries: the *)
(* step-by-step selection computes the declarative one.  The invariant is  *)
(* the loop invariant of the two max_by_key passes together with what the  *)
(* platform loop has achieved so far.  With what parsing kept of the       *)
(* argument it determines the result (Outcome).                            *)
(***************************************************************************)
EXTENDS Selection, TLAPS

(* The entries a pass over the list is looking for. *)
Wanted == IF pc = "emulated" THEN Emulating(platforms[k])
                             ELSE Native(platforms[k])

(* Of the entries before i, best is the greatest wanted one. *)
LoopInv ==
  pc \in {"native", "emulated"} /\ k <= Len(platforms) =>
    /\ best = 0 => \A m \in Wanted : m >= i
    /\ best # 0 => best < i /\ IsBest(best, {m \in Wanted : m < i})

(* Emulation is only considered when no native satellite is idle. *)
PassInv ==
  pc = "emulated" => k <= Len(platforms) /\ Native(platforms[k]) = {}

(* The platforms before k have been dealt with. *)
PrefixInv ==
  pc \in {"native", "emulated", "bridged", "bailed"} =>
    \A j \in 1 .. Len(platforms) :
      j < k /\ Candidates(platforms[j]) # {} => bridges[platforms[j]] # 0

(* Before the platform loop nothing is scanned; after it all is done. *)
PhaseInv ==
  /\ pc = "parse" => i = 1 /\ best = 0
  /\ Planned => k > Len(platforms)
  /\ pc = "bailed" => \A p \in Platforms : bridges[p] = 0

IInv ==
  TypeOK /\ NoPanic /\ LoopInv /\ PassInv /\ PrefixInv /\ PhaseInv
    /\ BestSatellite

-----------------------------------------------------------------------------
LEMMA InitIInv == Init => IInv
<1> SUFFICES ASSUME Init PROVE IInv
  OBVIOUS
<1>1. TypeOK
  BY SelectionInputs DEF Init, TypeOK
<1>2. NoPanic /\ LoopInv /\ PassInv /\ PrefixInv /\ PhaseInv
  BY DEF Init, NoPanic, LoopInv, PassInv, PrefixInv, PhaseInv, Planned
<1>3. BestSatellite
  BY DEF Init, BestSatellite
<1> QED
  BY <1>1, <1>2, <1>3 DEF IInv

LEMMA EntryTime ==
  ASSUME TypeOK
  PROVE  \A m \in 1 .. Len(entries) : entries[m].registered_at \in Nat
<1>1. \A m \in 1 .. Len(entries) : entries[m] \in Entry
  BY DEF TypeOK
<1> QED
  BY <1>1 DEF Entry

LEMMA WantedRange == Wanted \subseteq 1 .. Len(entries)
  BY DEF Wanted, Emulating, Native

(* One step of a pass keeps the running maximum right. *)
LEMMA ScanStep ==
  ASSUME TypeOK, pc \in {"native", "emulated"}, LoopInv, Scan(Wanted)
  PROVE  /\ i' \in 1 .. Len(entries) + 1
         /\ best' \in 0 .. Len(entries)
         /\ best' = 0 => \A m \in Wanted : m >= i'
         /\ best' # 0 => best' < i' /\ IsBest(best', {m \in Wanted : m < i'})
<1> DEFINE W == Wanted
           at(m) == entries[m].registered_at
<1>1. /\ i \in 1 .. Len(entries) /\ i' = i + 1 /\ Len(entries) \in Nat
      /\ best \in 0 .. Len(entries)
      /\ k <= Len(platforms)
  BY DEF Scan, TypeOK
<1>2. W \subseteq 1 .. Len(entries) /\ \A m \in 1 .. Len(entries) : at(m) \in Nat
  BY WantedRange, EntryTime
<1>3. /\ best = 0 => \A m \in W : m >= i
      /\ best # 0 => best < i /\ IsBest(best, {m \in W : m < i})
  BY <1>1 DEF LoopInv
<1>4. best' = IF i \in W /\ Better(i) THEN i ELSE best
  BY DEF Scan
<1>5. Better(i) <=> best = 0 \/ at(i) >= at(best)
  BY DEF Better
<1>6. \A j, S : IsBest(j, S) <=>
        j \in S /\ \A m \in S : at(m) < at(j) \/ (at(m) = at(j) /\ m <= j)
  BY DEF IsBest
<1> HIDE DEF W, at
<1>7. CASE i \in W /\ Better(i)
  <2>1. best' = i
    BY <1>4, <1>7
  <2>2. ASSUME NEW m \in W, m < i'
        PROVE  at(m) < at(i) \/ (at(m) = at(i) /\ m <= i)
    <3>1. m \in 1 .. Len(entries) /\ m <= i /\ at(m) \in Nat /\ at(i) \in Nat
      BY <2>2, <1>1, <1>2
    <3>2. CASE m = i
      BY <3>1, <3>2
    <3>3. CASE m < i
      <4>1. best # 0 /\ at(best) \in Nat /\ at(i) >= at(best)
        BY <3>3, <1>1, <1>2, <1>3, <1>5, <1>7, <2>2, <3>1
      <4>2. at(m) <= at(best)
        BY <4>1, <3>1, <3>3, <1>3, <1>6, <2>2
      <4> QED
        BY <4>1, <4>2, <3>1, <3>3
    <3> QED
      BY <3>1, <3>2, <3>3, <1>1
  <2>3. IsBest(i, {m \in W : m < i'})
    <3>1. i \in {m \in W : m < i'}
      BY <1>1, <1>7
    <3> QED
      BY <2>2, <3>1, <1>6, Zenon
  <2> QED
    BY <2>1, <2>3, <1>1 DEF W
<1>8. CASE ~(i \in W /\ Better(i))
  <2>1. best' = best
    BY <1>4, <1>8
  <2>2. CASE best = 0
    <3>1. \A m \in W : m >= i /\ m # i /\ m \in Nat
      BY <2>2, <1>2, <1>3, <1>5, <1>8
    <3>2. \A m \in W : m >= i'
      BY <3>1, <1>1
    <3>3. i' \in 1 .. Len(entries) + 1 /\ best' \in 0 .. Len(entries)
      BY <2>1, <1>1
    <3> QED
      BY <2>1, <2>2, <3>2, <3>3 DEF W
  <2>3. CASE best # 0
    <3>1. ASSUME NEW m \in W, m < i'
          PROVE  at(m) < at(best) \/ (at(m) = at(best) /\ m <= best)
      <4>1. m \in 1 .. Len(entries) /\ at(m) \in Nat /\ at(best) \in Nat
        BY <1>1, <1>2, <2>3
      <4>2. CASE m = i
        BY <4>1, <4>2, <1>5, <1>8, <2>3
      <4>3. CASE m < i
        BY <4>3, <1>3, <1>6, <2>3
      <4> QED
        BY <4>1, <4>2, <4>3, <3>1, <1>1
    <3>2. best \in W /\ best < i
      BY <1>3, <1>6, <2>3
    <3>3. best \in {m \in W : m < i'}
      BY <3>2, <1>1
    <3>4. IsBest(best, {m \in W : m < i'})
      BY <3>1, <3>3, <1>6, Zenon
    <3>5. /\ i' \in 1 .. Len(entries) + 1
          /\ best' \in 0 .. Len(entries)
          /\ best' < i'
      BY <2>1, <3>2, <1>1
    <3> QED
      BY <2>1, <2>3, <3>4, <3>5 DEF W
  <2> QED
    BY <2>2, <2>3
<1> QED
  BY <1>7, <1>8

(* A finished pass has found the best of the wanted entries, or none. *)
LEMMA PassEnd ==
  ASSUME TypeOK, LoopInv, pc \in {"native", "emulated"}, k <= Len(platforms),
         i > Len(entries)
  PROVE  /\ best = 0 => Wanted = {}
         /\ best # 0 => IsBest(best, Wanted)
<1>1. \A m \in Wanted : m < i
  BY WantedRange DEF TypeOK
<1>2. {m \in Wanted : m < i} = Wanted
  BY <1>1
<1>3. best = 0 => \A m \in Wanted : m >= i
  BY DEF LoopInv
<1>4. best = 0 => Wanted = {}
  BY <1>1, <1>3, WantedRange DEF TypeOK
<1> QED
  BY <1>2, <1>4 DEF LoopInv

LEMMA TypeStep == IInv /\ [Next]_vars => TypeOK'
<1> SUFFICES ASSUME IInv, [Next]_vars PROVE TypeOK'
  OBVIOUS
<1> USE DEF IInv, TypeOK
<1>1. CASE ParseItem
  <2>1. items[k] \in Platforms
    BY <1>1 DEF ParseItem
  <2>2. platforms' \in Seq(Platforms)
    BY <1>1, <2>1 DEF ParseItem
  <2> QED
    BY <1>1, <2>2 DEF ParseItem
<1>2. CASE ParseEnd
  BY <1>2 DEF ParseEnd
<1>3. CASE ScanNative
  <2>1. Scan(Wanted)
    BY <1>3 DEF ScanNative, Wanted
  <2> QED
    BY <1>3, <2>1, ScanStep DEF ScanNative, Scan
<1>4. CASE ScanEmulated
  <2>1. Scan(Wanted)
    BY <1>4 DEF ScanEmulated, Wanted
  <2> QED
    BY <1>4, <2>1, ScanStep DEF ScanEmulated, Scan
<1>5. CASE AddBridge
  BY <1>5 DEF AddBridge
<1>6. CASE FallBack
  BY <1>6 DEF FallBack
<1>7. CASE SkipPlatform
  BY <1>7 DEF SkipPlatform
<1>8. CASE Finish
  BY <1>8 DEF Finish
<1>9. CASE UNCHANGED vars
  BY <1>9 DEF vars
<1> QED
  BY <1>1, <1>2, <1>3, <1>4, <1>5, <1>6, <1>7, <1>8, <1>9 DEF Next

(* The inputs never change, so neither do the sets the properties speak of.*)
LEMMA InputsFixed ==
  ASSUME [Next]_vars
  PROVE  /\ entries' = entries
         /\ \A p : Native(p)' = Native(p) /\ Emulating(p)' = Emulating(p)
         /\ \A p : Candidates(p)' = Candidates(p)
         /\ \A j, S : IsBest(j, S)' <=> IsBest(j, S)
<1>1. entries' = entries
  BY DEF Next, vars, ParseItem, ParseEnd, ScanNative, ScanEmulated, Scan,
         AddBridge, FallBack, SkipPlatform, Finish
<1> QED
  BY <1>1 DEF Native, Emulating, Candidates, IsBest

(* Adding a bridge records the best candidate of the current platform. *)
LEMMA AddBridgeBest ==
  ASSUME IInv, AddBridge
  PROVE  IsBest(best, Candidates(platforms[k]))
<1>1. IsBest(best, Wanted)
  BY PassEnd DEF IInv, AddBridge
<1>2. Wanted = Candidates(platforms[k])
  <2>1. CASE pc = "native"
    <3>1. Wanted = Native(platforms[k])
      BY <2>1 DEF Wanted
    <3>2. Wanted # {}
      BY <1>1 DEF IsBest
    <3> QED
      BY <3>1, <3>2 DEF Candidates
  <2>2. CASE pc = "emulated"
    BY <2>2 DEF Wanted, IInv, PassInv, Candidates
  <2> QED
    BY <2>1, <2>2 DEF AddBridge
<1> QED
  BY <1>1, <1>2

(* Skipping a platform happens only without a candidate. *)
LEMMA SkipNoCandidate ==
  ASSUME IInv, SkipPlatform
  PROVE  Candidates(platforms[k]) = {}
<1>1. k <= Len(platforms) /\ Native(platforms[k]) = {}
  BY DEF IInv, PassInv, SkipPlatform
<1>2. Wanted = {}
  BY <1>1, PassEnd DEF IInv, SkipPlatform
<1> QED
  BY <1>1, <1>2 DEF Wanted, Candidates, SkipPlatform

LEMMA NextIInv == IInv /\ [Next]_vars => IInv'
<1> SUFFICES ASSUME IInv, [Next]_vars PROVE IInv'
  OBVIOUS
<1>0. TypeOK' /\ TypeOK
  BY TypeStep DEF IInv
<1>1. CASE ParseItem
  <2>1. (NoPanic /\ LoopInv /\ PassInv /\ PrefixInv /\ PhaseInv)'
    BY <1>1 DEF ParseItem, IInv, NoPanic, LoopInv, PassInv, PrefixInv,
                PhaseInv, Planned
  <2>2. BestSatellite'
    BY <1>1, InputsFixed DEF ParseItem, IInv, BestSatellite
  <2> QED
    BY <1>0, <2>1, <2>2 DEF IInv
<1>2. CASE ParseEnd
  <2>1. NoPanic'
    BY <1>2 DEF ParseEnd, NoPanic, Linux
  <2>2. LoopInv'
    <3>1. Wanted' \subseteq 1 .. Len(entries)
      BY <1>2, WantedRange, InputsFixed DEF ParseEnd, Wanted, Native, Emulating
    <3> QED
      BY <1>2, <3>1 DEF ParseEnd, LoopInv, IInv, PhaseInv
  <2>3. (PassInv /\ PrefixInv /\ PhaseInv)'
    BY <1>2, <1>0 DEF ParseEnd, PassInv, PrefixInv, PhaseInv, Planned, TypeOK
  <2>4. BestSatellite'
    BY <1>2, InputsFixed DEF ParseEnd, IInv, BestSatellite
  <2> QED
    BY <1>0, <2>1, <2>2, <2>3, <2>4 DEF IInv
<1>3. ASSUME pc \in {"native", "emulated"}, Scan(Wanted)
      PROVE  IInv'
  <2>1. Wanted' = Wanted
    BY <1>3, InputsFixed DEF Scan, Wanted
  <2>2. LoopInv'
    BY <1>0, <1>3, <2>1, ScanStep DEF IInv, LoopInv, IsBest, Scan
  <2>3. (NoPanic /\ PassInv /\ PhaseInv)'
    BY <1>3, InputsFixed DEF Scan, IInv, NoPanic, PassInv, PhaseInv, Planned
  <2>4. (PrefixInv /\ BestSatellite)'
    BY <1>3, InputsFixed DEF Scan, IInv, PrefixInv, BestSatellite
  <2> QED
    BY <1>0, <2>2, <2>3, <2>4 DEF IInv
<1>4. CASE AddBridge
  <2>1. LoopInv'
    <3>1. Wanted' \subseteq 1 .. Len(entries)
      BY <1>4, InputsFixed DEF AddBridge, Wanted, Native, Emulating
    <3> QED
      BY <1>4, <3>1 DEF AddBridge, LoopInv
  <2>2. (NoPanic /\ PassInv /\ PhaseInv)'
    BY <1>4 DEF AddBridge, IInv, NoPanic, PassInv, PhaseInv, Planned
  <2>3. PrefixInv'
    <3>1. /\ k \in Nat /\ k' = k + 1 /\ platforms' = platforms
          /\ \A j \in 1 .. Len(platforms) : platforms[j] \in Platforms
      BY <1>0, <1>4 DEF AddBridge, TypeOK
    <3>2. \A p \in Platforms :
            bridges'[p] = IF p = platforms[k] THEN best ELSE bridges[p]
      BY <1>0, <1>4 DEF AddBridge, TypeOK
    <3>3. best # 0 /\ pc \in {"native", "emulated"}
      BY <1>4 DEF AddBridge
    <3>4. ASSUME NEW j \in 1 .. Len(platforms), j < k',
                 Candidates(platforms[j]) # {}
          PROVE  bridges'[platforms[j]] # 0
      <4>1. j = k \/ j < k
        BY <3>1, <3>4
      <4> QED
        BY <3>1, <3>2, <3>3, <3>4, <4>1 DEF IInv, PrefixInv
    <3> QED
      BY <3>1, <3>4, InputsFixed DEF PrefixInv
  <2>4. BestSatellite'
    BY <1>0, <1>4, AddBridgeBest, InputsFixed
       DEF AddBridge, IInv, BestSatellite, TypeOK
  <2> QED
    BY <1>0, <2>1, <2>2, <2>3, <2>4 DEF IInv
<1>5. CASE FallBack
  <2>1. Native(platforms[k]) = {}
    <3>1. Wanted = {}
      BY <1>0, <1>5, PassEnd DEF IInv, FallBack
    <3> QED
      BY <3>1, <1>5 DEF Wanted, FallBack
  <2>2. LoopInv'
    <3>1. Wanted' \subseteq 1 .. Len(entries)
      BY <1>5, InputsFixed DEF FallBack, Wanted, Native, Emulating
    <3> QED
      BY <1>5, <3>1 DEF FallBack, LoopInv
  <2>3. (NoPanic /\ PassInv /\ PhaseInv)'
    BY <1>5, <2>1, InputsFixed
       DEF FallBack, IInv, NoPanic, PassInv, PhaseInv, Planned
  <2>4. (PrefixInv /\ BestSatellite)'
    BY <1>5, InputsFixed DEF FallBack, IInv, PrefixInv, BestSatellite
  <2> QED
    BY <1>0, <2>2, <2>3, <2>4 DEF IInv
<1>6. CASE SkipPlatform
  <2>1. LoopInv'
    <3>1. Wanted' \subseteq 1 .. Len(entries)
      BY <1>6, InputsFixed DEF SkipPlatform, Wanted, Native, Emulating
    <3> QED
      BY <1>6, <3>1 DEF SkipPlatform, LoopInv
  <2>2. (NoPanic /\ PassInv /\ PhaseInv)'
    BY <1>6 DEF SkipPlatform, IInv, NoPanic, PassInv, PhaseInv, Planned
  <2>3. PrefixInv'
    <3>1. /\ k \in Nat /\ k' = k + 1 /\ platforms' = platforms
          /\ bridges' = bridges /\ pc = "emulated"
      BY <1>0, <1>6 DEF SkipPlatform, TypeOK
    <3>2. Candidates(platforms[k]) = {}
      BY <1>6, SkipNoCandidate
    <3>3. ASSUME NEW j \in 1 .. Len(platforms), j < k',
                 Candidates(platforms[j]) # {}
          PROVE  bridges'[platforms[j]] # 0
      <4>1. j = k \/ j < k
        BY <3>1, <3>3
      <4> QED
        BY <3>1, <3>2, <3>3, <4>1 DEF IInv, PrefixInv
    <3> QED
      BY <3>1, <3>3, InputsFixed DEF PrefixInv
  <2>4. BestSatellite'
    BY <1>6, InputsFixed DEF SkipPlatform, IInv, BestSatellite
  <2> QED
    BY <1>0, <2>1, <2>2, <2>3, <2>4 DEF IInv
<1>7. CASE Finish
  <2>1. (NoPanic /\ LoopInv /\ PassInv /\ PhaseInv)'
    BY <1>0, <1>7
       DEF Finish, IInv, NoPanic, LoopInv, PassInv, PhaseInv, Planned, TypeOK
  <2>2. (PrefixInv /\ BestSatellite)'
    BY <1>7, InputsFixed DEF Finish, IInv, PrefixInv, BestSatellite
  <2> QED
    BY <1>0, <2>1, <2>2 DEF IInv
<1>8. CASE UNCHANGED vars
  BY <1>0, <1>8
     DEF vars, IInv, NoPanic, LoopInv, PassInv, PrefixInv, PhaseInv, Planned,
         BestSatellite, Wanted, Native, Emulating, Candidates, IsBest
<1>9. CASE ScanNative
  BY <1>3, <1>9 DEF ScanNative, Wanted
<1>10. CASE ScanEmulated
  BY <1>3, <1>10 DEF ScanEmulated, Wanted
<1> QED
  BY <1>1, <1>2, <1>4, <1>5, <1>6, <1>7, <1>8, <1>9, <1>10 DEF Next

-----------------------------------------------------------------------------
(* Every reachable state satisfies the loop invariants. *)
THEOREM Invariance == Spec => []IInv
<1> QED
  BY InitIInv, NextIInv, PTL DEF Spec

(* No index the selection uses leaves the list it points into. *)
THEOREM TypeCorrect == Spec => []TypeOK
<1>1. IInv => TypeOK
  BY DEF IInv
<1> QED
  BY <1>1, Invariance, PTL

(* What parse_platforms accepts never makes platform_to_arch panic. *)
THEOREM NoPanicHolds == Spec => []NoPanic
<1>1. IInv => NoPanic
  BY DEF IInv
<1> QED
  BY <1>1, Invariance, PTL

(* The two passes of select_satellite_for_platform find the last of the    *)
(* most recently registered idle native satellites or, without one, of the *)
(* idle emulating ones.                                                    *)
THEOREM BestSatelliteHolds == Spec => []BestSatellite
<1>1. IInv => BestSatellite
  BY DEF IInv
<1> QED
  BY <1>1, Invariance, PTL

(* A platform goes without a bridge, and mission control gives up, only    *)
(* when no idle satellite can build what was asked.                        *)
THEOREM ServedHolds == Spec => []ServedWhenPossible
<1>1. IInv => ServedWhenPossible
  <2> SUFFICES ASSUME IInv, Planned PROVE ServedWhenPossible
    BY DEF ServedWhenPossible
  <2>1. \A j \in 1 .. Len(platforms) :
          Candidates(platforms[j]) # {} => bridges[platforms[j]] # 0
    <3>1. \A j \in 1 .. Len(platforms) : j < k
      BY DEF IInv, TypeOK, PhaseInv
    <3> QED
      BY <3>1 DEF IInv, PrefixInv, Planned
  <2>2. ASSUME pc = "bailed", NEW j \in 1 .. Len(platforms)
        PROVE  Candidates(platforms[j]) = {}
    <3>1. platforms[j] \in Platforms
      BY DEF IInv, TypeOK
    <3> QED
      BY <2>1, <2>2, <3>1 DEF IInv, PhaseInv
  <2> QED
    BY <2>1, <2>2 DEF ServedWhenPossible
<1> QED
  BY <1>1, Invariance, PTL

-----------------------------------------------------------------------------
(* The whole of what the computation returns.                              *)

Listed(s) == {s[j] : j \in 1 .. Len(s)}

(* The platforms the argument asks for: its items but the empty ones. *)
Requested == {p \in Listed(items) : NonEmpty(p)}

(* The argument is refused if it asks for nothing, or for a platform that  *)
(* is not linux; otherwise each platform asked for that an idle satellite  *)
(* can build gets the best of them, no other platform gets a bridge, and   *)
(* the plan fails if there is none.                                        *)
Outcome ==
  /\ pc = "rejected" =>
       Requested = {} \/ \E p \in Requested : ~Linux(p)
  /\ Planned =>
       /\ Requested # {} /\ \A p \in Requested : Linux(p)
       /\ \A p \in Platforms :
            IF p \in Requested /\ Candidates(p) # {}
              THEN IsBest(bridges[p], Candidates(p))
              ELSE bridges[p] = 0
       /\ pc = "bridged" <=> \E p \in Requested : Candidates(p) # {}

(* The outcome names one entry per platform. *)
LEMMA BestUnique ==
  ASSUME TypeOK, NEW S \in SUBSET (1 .. Len(entries)),
         NEW j, NEW m, IsBest(j, S), IsBest(m, S)
  PROVE  j = m
<1>1. j \in 1 .. Len(entries) /\ m \in 1 .. Len(entries)
  BY DEF IsBest
<1>2. entries[j].registered_at \in Nat /\ entries[m].registered_at \in Nat
  BY <1>1, EntryTime
<1>3. m <= j /\ j <= m
  BY <1>1, <1>2 DEF IsBest
<1> QED
  BY <1>1, <1>3

(* The items of the argument before k. *)
Before == {items[j] : j \in {m \in 1 .. Len(items) : m < k}}

(* What is parsed, and so what is bridged, is what was asked for. *)
ParsedInv ==
  /\ pc = "parse" => Listed(platforms) = {p \in Before : NonEmpty(p)}
  /\ pc # "parse" => Listed(platforms) = Requested
  /\ pc = "rejected" =>
       Requested = {} \/ \E p \in Requested : ~Linux(p)
  /\ pc \notin {"parse", "rejected"} =>
       Requested # {} /\ \A p \in Requested : Linux(p)
  /\ pc = "parse" => \A p \in Platforms : bridges[p] = 0
  /\ \A p \in Platforms : bridges[p] # 0 => p \in Requested
  /\ pc = "bridged" => \E p \in Platforms : bridges[p] # 0

LEMMA ListedAppend ==
  ASSUME NEW s \in Seq(Platforms), NEW p \in Platforms
  PROVE  Listed(Append(s, p)) = Listed(s) \cup {p}
<1> DEFINE r == Append(s, p)
<1>1. Len(r) = Len(s) + 1 /\ r[Len(s) + 1] = p /\ Len(s) \in Nat
  OBVIOUS
<1>2. \A j \in 1 .. Len(s) : r[j] = s[j]
  OBVIOUS
<1> HIDE DEF r
<1>3. \A j \in 1 .. Len(r) : j \in 1 .. Len(s) \/ j = Len(s) + 1
  BY <1>1
<1>4. Listed(r) \subseteq Listed(s) \cup {p}
  BY <1>1, <1>2, <1>3 DEF Listed
<1>5. Listed(s) \cup {p} \subseteq Listed(r)
  <2>1. \A j \in 1 .. Len(s) : j \in 1 .. Len(r) /\ r[j] = s[j]
    BY <1>1, <1>2
  <2>2. Len(s) + 1 \in 1 .. Len(r)
    BY <1>1
  <2> QED
    BY <1>1, <2>1, <2>2 DEF Listed
<1> QED
  BY <1>4, <1>5 DEF r

LEMMA InitParsedInv == Init => ParsedInv
<1> SUFFICES ASSUME Init PROVE ParsedInv
  OBVIOUS
<1>1. Listed(platforms) = {} /\ Before = {}
  BY DEF Init, Listed, Before
<1> QED
  BY <1>1 DEF Init, ParsedInv

LEMMA ParseItemParsed == TypeOK /\ ParsedInv /\ ParseItem => ParsedInv'
<1> SUFFICES ASSUME TypeOK, ParsedInv, ParseItem PROVE ParsedInv'
  OBVIOUS
<1>1. /\ k \in 1 .. Len(items) /\ k' = k + 1 /\ Len(items) \in Nat
      /\ items[k] \in Platforms
      /\ pc = "parse" /\ UNCHANGED <<items, pc, bridges>>
  BY DEF ParseItem, TypeOK
<1>2. Before' = Before \cup {items[k]}
  <2>1. \A m \in 1 .. Len(items) : m < k' <=> m < k \/ m = k
    BY <1>1
  <2> QED
    BY <1>1, <2>1 DEF Before
<1>3. Listed(platforms') =
        Listed(platforms) \cup IF NonEmpty(items[k]) THEN {items[k]} ELSE {}
  BY <1>1, ListedAppend DEF ParseItem, TypeOK
<1>4. Listed(platforms') = {p \in Before' : NonEmpty(p)}
  BY <1>1, <1>2, <1>3 DEF ParsedInv
<1>5. Requested' = Requested
  BY <1>1 DEF Requested
<1> QED
  BY <1>1, <1>4, <1>5 DEF ParsedInv

LEMMA ParseEndParsed == TypeOK /\ ParsedInv /\ ParseEnd => ParsedInv'
<1> SUFFICES ASSUME TypeOK, ParsedInv, ParseEnd PROVE ParsedInv'
  OBVIOUS
<1>1. Before = Listed(items)
  <2>1. {m \in 1 .. Len(items) : m < k} = 1 .. Len(items)
    BY DEF ParseEnd, TypeOK
  <2> QED
    BY <2>1 DEF Before, Listed
<1>2. UNCHANGED <<items, platforms, bridges>> /\ Requested' = Requested
  BY DEF ParseEnd, Requested
<1>3. Listed(platforms) = Requested
  BY <1>1 DEF ParseEnd, ParsedInv, Requested
<1>4. (platforms # <<>> /\ \A j \in 1 .. Len(platforms) : Linux(platforms[j]))
        <=> Requested # {} /\ \A p \in Requested : Linux(p)
  <2>1. platforms # <<>> <=> Listed(platforms) # {}
    <3>1. platforms # <<>> => 1 \in 1 .. Len(platforms)
      BY DEF TypeOK
    <3> QED
      BY <3>1 DEF Listed
  <2> QED
    BY <1>3, <2>1 DEF Listed
<1>5. pc' \in {"native", "rejected"}
  BY DEF ParseEnd
<1> QED
  BY <1>2, <1>3, <1>4, <1>5 DEF ParseEnd, ParsedInv

LEMMA NextParsedInv == IInv /\ ParsedInv /\ [Next]_vars => ParsedInv'
<1> SUFFICES ASSUME IInv, ParsedInv, [Next]_vars PROVE ParsedInv'
  OBVIOUS
<1>0. TypeOK
  BY DEF IInv
<1>1. CASE ScanNative \/ ScanEmulated \/ FallBack \/ SkipPlatform
  BY <1>1 DEF ScanNative, ScanEmulated, Scan, FallBack, SkipPlatform,
              ParsedInv, Requested
<1>2. CASE AddBridge
  <2>1. /\ k \in 1 .. Len(platforms) /\ platforms[k] \in Platforms
        /\ UNCHANGED <<items, platforms>> /\ pc' = "native"
        /\ pc \in {"native", "emulated"}
    BY <1>0, <1>2 DEF AddBridge, TypeOK
  <2>2. \A p \in Platforms :
          bridges'[p] = IF p = platforms[k] THEN best ELSE bridges[p]
    BY <1>0, <1>2 DEF AddBridge, TypeOK
  <2>3. platforms[k] \in Requested
    BY <2>1 DEF ParsedInv, Listed
  <2> QED
    BY <2>1, <2>2, <2>3 DEF ParsedInv, Requested
<1>3. CASE Finish
  BY <1>3 DEF Finish, ParsedInv, Requested
<1>4. CASE UNCHANGED vars
  BY <1>4 DEF vars, ParsedInv, Requested, Before
<1> QED
  BY <1>0, <1>1, <1>2, <1>3, <1>4, ParseItemParsed, ParseEndParsed DEF Next

(* parse_platforms and the platform loop together return exactly the       *)
(* bridges that the argument and the entries determine: one for each       *)
(* platform asked for that some idle satellite can build, to the best one, *)
(* and none for any other; or they refuse, for one of the stated reasons.  *)
THEOREM OutcomeHolds == Spec => []Outcome
<1>1. IInv /\ ParsedInv => Outcome
  <2> SUFFICES ASSUME IInv, ParsedInv, Planned PROVE Outcome
    BY DEF ParsedInv, Outcome
  <2>1. /\ Listed(platforms) = Requested
        /\ Requested # {} /\ \A p \in Requested : Linux(p)
        /\ Requested \subseteq Platforms
    <3>1. Listed(platforms) \subseteq Platforms
      BY DEF IInv, TypeOK, Listed
    <3> QED
      BY <3>1 DEF ParsedInv, Planned
  <2>2. \A p \in Requested : Candidates(p) # {} => bridges[p] # 0
    <3>1. \A j \in 1 .. Len(platforms) : j < k
      BY DEF IInv, TypeOK, PhaseInv
    <3> QED
      BY <2>1, <3>1 DEF IInv, PrefixInv, Planned, Listed
  <2>3. \A p \in Platforms : bridges[p] # 0 =>
          p \in Requested /\ Candidates(p) # {} /\ IsBest(bridges[p], Candidates(p))
    BY DEF IInv, BestSatellite, ParsedInv, IsBest
  <2>4. pc = "bridged" <=> \E p \in Requested : Candidates(p) # {}
    <3>1. CASE pc = "bridged"
      BY <2>3, <3>1 DEF ParsedInv
    <3>2. CASE pc = "bailed"
      BY <2>1, <2>2, <3>2 DEF IInv, PhaseInv
    <3> QED
      BY <3>1, <3>2 DEF Planned
  <2> QED
    BY <2>1, <2>2, <2>3, <2>4 DEF Outcome, ParsedInv, Planned
<1>2. Spec => []ParsedInv
  BY InitIInv, NextIInv, InitParsedInv, NextParsedInv, PTL DEF Spec
<1> QED
  BY <1>1, <1>2, Invariance, PTL
=============================================================================
