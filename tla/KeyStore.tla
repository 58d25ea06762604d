------------------------------ MODULE KeyStore ------------------------------
(***************************************************************************)
(* The identity of a node: load_or_generate_secret_key on the key file of  *)
(* one data directory, by all the commands of a machine that use it        *)
(* (mission-control, fleet, satellite, station share $HOME/.orbitbuild     *)
(* unless told otherwise), with crashes at any point and restarts.         *)
(*                                                                         *)
(* The file is checked, read and written in separate system calls, and     *)
(* written in place: opening it truncates it.  A key is 32 random bytes,   *)
(* so a generated one is new.                                              *)
(***************************************************************************)
EXTENDS Naturals

CONSTANTS
  Process,     \* the commands that use the data directory
  Key,         \* bound: keys that are generated
  Absent,      \* the path does not exist
  Short        \* the file has not 32 bytes: truncated and not yet rewritten

ASSUME FileStates == Absent \notin Key /\ Short \notin Key /\ Absent # Short

VARIABLES
  pc,          \* per process, where load_or_generate_secret_key stands
  key,         \* per process, the key in its hands, or Absent
  file,        \* the key file
  drawn,       \* keys generated so far
  ran,         \* history: identities that nodes ran with
  raced        \* history: two processes were generating at the same time

vars == <<pc, key, file, drawn, ran, raced>>

(* Between finding no file and having written one. *)
Generating(p) == pc[p] \in {"generated", "truncated", "written"}

-----------------------------------------------------------------------------
Init ==
  /\ pc = [p \in Process |-> "down"]
  /\ key = [p \in Process |-> Absent]
  /\ file = Absent
  /\ drawn = {}
  /\ ran = {}
  /\ raced = FALSE

(* The process is gone, whatever the reason; the file stays as it is. *)
Gone(p) ==
  /\ pc' = [pc EXCEPT ![p] = "down"]
  /\ key' = [key EXCEPT ![p] = Absent]
  /\ UNCHANGED <<file, drawn, ran, raced>>

Runs(p, k) ==
  /\ pc' = [pc EXCEPT ![p] = "running"]
  /\ key' = [key EXCEPT ![p] = k]
  /\ ran' = ran \cup {k}

(* path.exists() says yes. *)
FindKey(p) ==
  /\ pc[p] = "down"
  /\ file # Absent
  /\ pc' = [pc EXCEPT ![p] = "loading"]
  /\ UNCHANGED <<key, file, drawn, ran, raced>>

(* Mutant: the path is not checked. *)
FindNoKeyAlways(p) ==
  /\ pc[p] = "down"
  /\ \E k \in Key \ drawn :
       /\ key' = [key EXCEPT ![p] = k]
       /\ drawn' = drawn \cup {k}
  /\ pc' = [pc EXCEPT ![p] = "generated"]
  /\ raced' = (raced \/ \E q \in Process \ {p} : Generating(q))
  /\ UNCHANGED <<file, ran>>

(* path.exists() says no, and a key is generated. *)
FindNoKey(p) ==
  /\ pc[p] = "down"
  /\ file = Absent
  /\ \E k \in Key \ drawn :
       /\ key' = [key EXCEPT ![p] = k]
       /\ drawn' = drawn \cup {k}
  /\ pc' = [pc EXCEPT ![p] = "generated"]
  /\ raced' = (raced \/ \E q \in Process \ {p} : Generating(q))
  /\ UNCHANGED <<file, ran>>

(* Mutant: the length is not checked. *)
LoadAny(p) ==
  /\ pc[p] = "loading"
  /\ Runs(p, file)
  /\ UNCHANGED <<file, drawn, raced>>

(* fs::read, and the conversion to 32 bytes. *)
Load(p) ==
  /\ pc[p] = "loading"
  /\ file \in Key
  /\ Runs(p, file)
  /\ UNCHANGED <<file, drawn, raced>>

(* The file is short, or cannot be read: the command ends with an error. *)
LoadFails(p) == pc[p] = "loading" /\ Gone(p)

(* fs::write opens the file, creating or truncating it. *)
Truncate(p) ==
  /\ pc[p] = "generated"
  /\ file' = Short
  /\ pc' = [pc EXCEPT ![p] = "truncated"]
  /\ UNCHANGED <<key, drawn, ran, raced>>

(* Its write of 32 bytes at the start of the file. *)
Write(p) ==
  /\ pc[p] = "truncated"
  /\ file' = key[p]
  /\ pc' = [pc EXCEPT ![p] = "written"]
  /\ UNCHANGED <<key, drawn, ran, raced>>

(* Mutant: the node runs although its key could not be saved. *)
SaveFailsIgnored(p) ==
  /\ pc[p] \in {"generated", "truncated"}
  /\ Runs(p, key[p])
  /\ UNCHANGED <<file, drawn, raced>>

(* create_dir_all, the open or the write fails: so does the command. *)
SaveFails(p) == pc[p] \in {"generated", "truncated"} /\ Gone(p)

(* Mutant: the key is returned before its write is done. *)
UseUnwritten(p) ==
  /\ pc[p] \in {"truncated", "written"}
  /\ Runs(p, key[p])
  /\ UNCHANGED <<file, drawn, raced>>

(* The generated key is returned, without looking at the file again. *)
UseGenerated(p) ==
  /\ pc[p] = "written"
  /\ Runs(p, key[p])
  /\ UNCHANGED <<file, drawn, raced>>

(* The process ends or crashes. *)
Crash(p) == pc[p] # "down" /\ Gone(p)

-----------------------------------------------------------------------------
LoadKey(p) == FindKey(p) \/ Load(p) \/ LoadFails(p)

GenerateKey(p) ==
  FindNoKey(p) \/ Truncate(p) \/ Write(p) \/ SaveFails(p) \/ UseGenerated(p)

Next == \E p \in Process : LoadKey(p) \/ GenerateKey(p) \/ Crash(p)

Spec == Init /\ [][Next]_vars

-----------------------------------------------------------------------------
(* Properties.                                                             *)

(* The types of the processes, the file and the history. *)
TypeOK ==
  /\ pc \in [Process -> {"down", "loading", "generated", "truncated",
                         "written", "running"}]
  /\ key \in [Process -> Key \cup {Absent}]
  /\ file \in Key \cup {Absent, Short}
  /\ drawn \subseteq Key
  /\ ran \subseteq Key
  /\ raced \in BOOLEAN

(* keys.rs, "permanent ed25519 identity": unless two commands race to      *)
(* create it, all commands that ever run on a data directory run with the  *)
(* same identity, whichever of them crashed, failed or was restarted while *)
(* it was created.                                                         *)
OneIdentity == ~raced => \A k, l \in ran : k = l

(* The identity a node runs with is the one on disk, so that its restart   *)
(* has it again, unless two commands race.                                 *)
IdentityOnDisk ==
  ~raced => \A p \in Process : pc[p] = "running" => file = key[p]

(* "so that a node retains its identity across restarts": even if commands *)
(* race, once a key is in the file and nobody is left between checking and *)
(* writing, no crash, restart or further command changes it.               *)
Settled == file \in Key /\ \A p \in Process : ~Generating(p)

Permanent == [][Settled => Settled' /\ file' = file]_vars
=============================================================================
