--------------------------- MODULE KeyStoreProofs ---------------------------
(***************************************************************************)
(* Theorems about module KeyStore, for any commands and any keys.          *)
(*                                                                         *)
(* While no two commands have raced, at most one is generating, the file   *)
(* is in the state that one left it in, and whoever runs, runs with the    *)
(* key in the file.                                                        *)
(***************************************************************************)
EXTENDS KeyStore, TLAPS

(* A process past generating or loading has a key. *)
Holding ==
  \A p \in Process : pc[p] \notin {"down", "loading"} => key[p] \in Key

OneGenerates ==
  \A p, q \in Process : Generating(p) /\ Generating(q) => p = q

(* What the one that generates knows of the file. *)
FileFollows ==
  \A p \in Process :
    /\ pc[p] = "generated" => file = Absent
    /\ pc[p] = "truncated" => file = Short
    /\ pc[p] \in {"written", "running"} => file = key[p]

RanOnFile == \A k \in ran : k = file

IInv ==
  /\ TypeOK
  /\ Holding
  /\ ~raced => OneGenerates /\ FileFollows /\ RanOnFile

LEMMA InitIInv == Init => IInv
  BY FileStates DEF Init, IInv, TypeOK, Holding, OneGenerates, FileFollows,
                    RanOnFile, Generating

(* A process that is gone takes nothing with it. *)
LEMMA GoneIInv == ASSUME IInv, NEW p \in Process, Gone(p) PROVE IInv'
<1> USE DEF Gone
<1>1. TypeOK' /\ Holding'
  BY DEF IInv, TypeOK, Holding
<1>2. ASSUME ~raced' PROVE (OneGenerates /\ FileFollows /\ RanOnFile)'
  <2>1. OneGenerates /\ FileFollows /\ RanOnFile
    BY <1>2 DEF IInv
  <2>2. \A q \in Process : q # p => pc'[q] = pc[q] /\ key'[q] = key[q]
    BY DEF IInv, TypeOK
  <2>3. pc'[p] = "down"
    BY DEF IInv, TypeOK
  <2> QED
    BY <2>1, <2>2, <2>3 DEF OneGenerates, FileFollows, RanOnFile, Generating
<1> QED
  BY <1>1, <1>2 DEF IInv

LEMMA NextIInv == IInv /\ [Next]_vars => IInv'
<1> SUFFICES ASSUME IInv, [Next]_vars PROVE IInv'
  OBVIOUS
<1> USE FileStates DEF IInv, TypeOK
<1>1. ASSUME NEW p \in Process, FindKey(p) PROVE IInv'
  BY <1>1 DEF FindKey, Holding, OneGenerates, FileFollows, RanOnFile, Generating
<1>2. ASSUME NEW p \in Process, Load(p) PROVE IInv'
  <2>1. /\ pc[p] = "loading" /\ file \in Key
        /\ pc' = [pc EXCEPT ![p] = "running"]
        /\ key' = [key EXCEPT ![p] = file]
        /\ ran' = ran \cup {file}
        /\ UNCHANGED <<file, drawn, raced>>
    BY <1>2 DEF Load, Runs
  <2>2. TypeOK' /\ Holding'
    BY <2>1 DEF Holding
  <2>3. ASSUME ~raced PROVE (OneGenerates /\ FileFollows /\ RanOnFile)'
    BY <2>1, <2>3 DEF OneGenerates, FileFollows, RanOnFile, Generating
  <2> QED
    BY <2>1, <2>2, <2>3
<1>3. ASSUME NEW p \in Process, LoadFails(p) \/ SaveFails(p) \/ Crash(p)
      PROVE  IInv'
  BY <1>3, GoneIInv DEF LoadFails, SaveFails, Crash
<1>4. ASSUME NEW p \in Process, FindNoKey(p) PROVE IInv'
  <2>1. PICK k \in Key \ drawn :
          /\ pc[p] = "down" /\ file = Absent
          /\ key' = [key EXCEPT ![p] = k]
          /\ drawn' = drawn \cup {k}
          /\ pc' = [pc EXCEPT ![p] = "generated"]
          /\ raced' = (raced \/ \E q \in Process \ {p} : Generating(q))
          /\ UNCHANGED <<file, ran>>
    BY <1>4 DEF FindNoKey
  <2>2. TypeOK' /\ Holding'
    BY <2>1 DEF Holding
  <2>3. ASSUME ~raced' PROVE (OneGenerates /\ FileFollows /\ RanOnFile)'
    <3>1. ~raced /\ \A q \in Process \ {p} : ~Generating(q)
      BY <2>1, <2>3
    <3>2. \A q \in Process \ {p} : pc'[q] = pc[q] /\ key'[q] = key[q]
      BY <2>1
    <3>3. OneGenerates'
      BY <3>1, <3>2 DEF OneGenerates, Generating
    <3>4. FileFollows' /\ RanOnFile'
      BY <2>1, <3>1, <3>2 DEF FileFollows, RanOnFile
    <3> QED
      BY <3>3, <3>4
  <2> QED
    BY <2>2, <2>3
<1>5. ASSUME NEW p \in Process, Truncate(p) \/ Write(p) PROVE IInv'
  <2>1. /\ pc[p] \in {"generated", "truncated"}
        /\ \/ pc[p] = "generated" /\ file' = Short
              /\ pc' = [pc EXCEPT ![p] = "truncated"]
           \/ pc[p] = "truncated" /\ file' = key[p]
              /\ pc' = [pc EXCEPT ![p] = "written"]
        /\ UNCHANGED <<key, drawn, ran, raced>>
    BY <1>5 DEF Truncate, Write
  <2>2. key[p] \in Key
    BY <2>1 DEF Holding
  <2>3. TypeOK' /\ Holding'
    BY <2>1, <2>2 DEF Holding
  <2>4. ASSUME ~raced PROVE (OneGenerates /\ FileFollows /\ RanOnFile)'
    <3>1. OneGenerates /\ FileFollows /\ RanOnFile
      BY <2>4
    <3>2. file \notin Key
      BY <2>1, <3>1 DEF FileFollows
    <3>3. ran = {} /\ \A q \in Process : pc[q] # "running"
      BY <3>1, <3>2 DEF RanOnFile, FileFollows, Holding
    <3>4. \A q \in Process : q # p => ~Generating(q) /\ pc'[q] = pc[q]
      BY <2>1, <3>1 DEF OneGenerates, Generating
    <3>5. OneGenerates'
      BY <3>4 DEF OneGenerates, Generating
    <3>6. FileFollows'
      BY <2>1, <3>3, <3>4 DEF FileFollows, Generating
    <3> QED
      BY <2>1, <3>3, <3>5, <3>6 DEF RanOnFile
  <2> QED
    BY <2>1, <2>3, <2>4
<1>6. ASSUME NEW p \in Process, UseGenerated(p) PROVE IInv'
  <2>1. /\ pc[p] = "written"
        /\ pc' = [pc EXCEPT ![p] = "running"]
        /\ key' = [key EXCEPT ![p] = key[p]]
        /\ ran' = ran \cup {key[p]}
        /\ UNCHANGED <<file, drawn, raced>>
    BY <1>6 DEF UseGenerated, Runs
  <2>2. key[p] \in Key /\ key' = key
    BY <2>1 DEF Holding
  <2>3. TypeOK' /\ Holding'
    BY <2>1, <2>2 DEF Holding
  <2>4. ASSUME ~raced PROVE (OneGenerates /\ FileFollows /\ RanOnFile)'
    BY <2>1, <2>2, <2>4 DEF OneGenerates, FileFollows, RanOnFile, Generating
  <2> QED
    BY <2>1, <2>3, <2>4
<1>7. CASE UNCHANGED vars
  BY <1>7 DEF vars, Holding, OneGenerates, FileFollows, RanOnFile, Generating
<1> QED
  BY <1>1, <1>2, <1>3, <1>4, <1>5, <1>6, <1>7 DEF Next, LoadKey, GenerateKey

THEOREM Invariance == Spec => []IInv
<1> QED
  BY InitIInv, NextIInv, PTL DEF Spec

(* The types of the processes, the file and the history. *)
THEOREM TypeCorrect == Spec => []TypeOK
<1>1. IInv => TypeOK
  BY DEF IInv
<1> QED
  BY <1>1, Invariance, PTL

(* Unless two commands race to create the key, all that ever run on the    *)
(* data directory have one identity.                                       *)
THEOREM OneIdentityHolds == Spec => []OneIdentity
<1>1. IInv => OneIdentity
  BY DEF IInv, OneIdentity, RanOnFile
<1> QED
  BY <1>1, Invariance, PTL

(* Unless two commands race, the identity of a running node is on disk. *)
THEOREM IdentityOnDiskHolds == Spec => []IdentityOnDisk
<1>1. IInv => IdentityOnDisk
  BY DEF IInv, IdentityOnDisk, FileFollows
<1> QED
  BY <1>1, Invariance, PTL

(* A key that is on disk with nobody left to write one stays for good,     *)
(* also after a race.                                                      *)
THEOREM PermanentHolds == Spec => Permanent
<1>1. IInv /\ [Next]_vars => (Settled => Settled' /\ file' = file)
  <2> SUFFICES ASSUME TypeOK, [Next]_vars, Settled
               PROVE  Settled' /\ file' = file
    BY DEF IInv
  <2> USE FileStates DEF TypeOK, Settled, Generating
  <2>1. CASE UNCHANGED vars
    BY <2>1 DEF vars
  <2>2. ASSUME NEW p \in Process, Next, LoadKey(p) \/ GenerateKey(p) \/ Crash(p)
        PROVE  Settled' /\ file' = file
    BY <2>2 DEF LoadKey, GenerateKey, FindKey, Load, LoadFails, FindNoKey,
                Truncate, Write, SaveFails, UseGenerated, Crash, Gone, Runs
  <2> QED
    BY <2>1, <2>2 DEF Next
<1>2. IInv /\ [Next]_vars => [Settled => Settled' /\ file' = file]_vars
  BY <1>1
<1> QED
  BY <1>2, Invariance, PTL DEF Spec, Permanent
=============================================================================
