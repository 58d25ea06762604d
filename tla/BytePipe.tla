------------------------------ MODULE BytePipe ------------------------------
(***************************************************************************)
(* What a build session promises the two applications at its ends: a pure  *)
(* pipe for bytes in both directions, whose ends report for themselves     *)
(* whether the session was good.  An end may give up at any time, but it   *)
(* reports success only if nothing was lost on its side of the pipe, and   *)
(* the other end outlives it only while its application may still write.   *)
(* Module Tunnel implements this with two proxies and a QUIC connection.   *)
(***************************************************************************)
EXTENDS Naturals

VARIABLES
  end,        \* per side: "absent", "open", "ok" or "err"
  put,        \* per side, chunks its application wrote
  shut,       \* per side, its application writes no more
  got         \* per side, chunks handed to its application

vars == <<end, put, shut, got>>

Side == {"local", "remote"}
Other(s) == IF s = "local" THEN "remote" ELSE "local"

Ended(s) == end[s] \in {"ok", "err"}

-----------------------------------------------------------------------------
Init ==
  /\ end = [s \in Side |-> IF s = "local" THEN "open" ELSE "absent"]
  /\ put = [s \in Side |-> 0]
  /\ shut = [s \in Side |-> FALSE]
  /\ got = [s \in Side |-> 0]

(* The far end of a session exists only once the near one reached it. *)
Join ==
  /\ end["remote"] = "absent"
  /\ end' = [end EXCEPT !["remote"] = "open"]
  /\ UNCHANGED <<put, shut, got>>

Put(s) ==
  /\ ~shut[s]
  /\ put' = [put EXCEPT ![s] = put[s] + 1]
  /\ UNCHANGED <<end, shut, got>>

Shut(s) ==
  /\ ~shut[s]
  /\ shut' = [shut EXCEPT ![s] = TRUE]
  /\ UNCHANGED <<end, put, got>>

(* The next chunk in order; nothing is handed out once an end has ended. *)
Get(s) ==
  /\ end[s] = "open"
  /\ got[s] < put[Other(s)]
  /\ got' = [got EXCEPT ![s] = got[s] + 1]
  /\ UNCHANGED <<end, put, shut>>

(* Success: there is nothing left to take in, and all that the other       *)
(* application wrote has come, unless the other end failed.                *)
Succeed(s) ==
  /\ end[s] = "open"
  /\ shut[s]
  /\ \/ shut[Other(s)] /\ got[s] = put[Other(s)]
     \/ end[Other(s)] = "err"
  /\ end' = [end EXCEPT ![s] = "ok"]
  /\ UNCHANGED <<put, shut, got>>

Fail(s) ==
  /\ ~Ended(s)
  /\ end' = [end EXCEPT ![s] = "err"]
  /\ UNCHANGED <<put, shut, got>>

(* An end whose counterpart has ended, and whose application writes no     *)
(* more.                                                                   *)
Collapse(s) ==
  end[s] = "open" /\ shut[s] /\ Ended(Other(s)) /\ (Succeed(s) \/ Fail(s))

-----------------------------------------------------------------------------
Next ==
  \/ Join
  \/ \E s \in Side : Put(s) \/ Shut(s) \/ Get(s) \/ Succeed(s) \/ Fail(s)

Spec == Init /\ [][Next]_vars

(* Only the end of a session is promised, not that its data arrives; and   *)
(* an end need not notice the end of the other while it waits for its own  *)
(* application.                                                            *)
FairSpec == Spec /\ \A s \in Side : WF_vars(Collapse(s))
=============================================================================
