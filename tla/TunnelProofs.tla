---------------------------- MODULE TunnelProofs ----------------------------
(***************************************************************************)
(* For any number of chunks: a side that returns Ok has forwarded          *)
(* everything (OkForwardedAll), when both sides do, every chunk arrived    *)
(* (CompletedMeansComplete), and the whole is a BytePipe.  A session that  *)
(* both applications have hung up on always has a step left until it has   *)
(* ended, and only so many (HungUpMoves, HungUpRunsDown).                  *)
(***************************************************************************)
EXTENDS Tunnel, TLAPS

(* What an application was given is at most what was put into the stream,  *)
(* which is at most what the other one wrote.                              *)
Pipe ==
  \A s \in Side : delivered[Other(s)] <= sent[s] /\ sent[s] <= written[s]

(* No copy has ended before the copies run. *)
Early(s) ==
  session[s] \in {"none", "connecting", "accepting", "dialing"} =>
    ~inDone[s] /\ ~outDone[s] /\ ~fin[s]

(* A finished stream is one whose copy ended, or whose task returned. *)
FinFrom(s) == fin[s] => inDone[s] \/ Ended(s)

(* The copy into the stream ended with all that was written, and the       *)
(* application writes no more.                                             *)
InDoneAll(s) ==
  inDone[s] => sent[s] = written[s] /\ app[s] \in {"shut", "closed"}

(* The copy out of the stream ended with all that was put into it. *)
OutDoneAll(s) ==
  outDone[s] => fin[Other(s)] /\ delivered[s] = sent[Other(s)]

OkBoth(s) == session[s] = "ok" => inDone[s] /\ outDone[s]

IInv ==
  /\ TypeOK
  /\ Pipe
  /\ \A s \in Side :
       Early(s) /\ FinFrom(s) /\ InDoneAll(s) /\ OutDoneAll(s) /\ OkBoth(s)

-----------------------------------------------------------------------------
LEMMA Sides ==
  \A s \in Side : Other(s) \in Side /\ Other(s) # s /\ Other(Other(s)) = s
  BY DEF Side, Other

LEMMA InitIInv == Init => IInv
<1> SUFFICES ASSUME Init PROVE IInv
  OBVIOUS
<1>1. TypeOK
  <2>1. /\ session \in [Side -> SessionState]
        /\ app \in [Side -> {"none", "open", "shut", "closed"}]
    BY DEF Init, SessionState
  <2>2. /\ written \in [Side -> 0 .. MaxChunks]
        /\ sent \in [Side -> 0 .. MaxChunks]
        /\ delivered \in [Side -> 0 .. MaxChunks]
    BY ChunkBound DEF Init
  <2>3. /\ inDone \in [Side -> BOOLEAN]
        /\ outDone \in [Side -> BOOLEAN]
        /\ fin \in [Side -> BOOLEAN]
        /\ lost \in BOOLEAN
    BY DEF Init
  <2> QED
    BY <2>1, <2>2, <2>3 DEF TypeOK
<1>2. Pipe
  BY Sides DEF Init, Pipe
<1>3. ASSUME NEW s \in Side
      PROVE  Early(s) /\ FinFrom(s) /\ InDoneAll(s) /\ OutDoneAll(s) /\ OkBoth(s)
  BY DEF Init, Early, FinFrom, InDoneAll, OutDoneAll, OkBoth
<1> QED
  BY <1>1, <1>2, <1>3 DEF IInv

LEMMA NextIInv == IInv /\ [Next]_vars => IInv'
<1> SUFFICES ASSUME IInv, [Next]_vars PROVE IInv'
  OBVIOUS
<1> USE Sides, ChunkBound
        DEF IInv, Pipe, Early, FinFrom, InDoneAll, OutDoneAll, OkBoth, Ended,
            copying
<1>1. CASE BridgeConnect
  <2>1. "local" \in Side
    BY DEF Side
  <2>2. TypeOK'
    BY <1>1, <2>1 DEF BridgeConnect, TypeOK, SessionState
  <2>3. Pipe'
    BY <1>1 DEF BridgeConnect
  <2>4. (\A s \in Side : Early(s) /\ FinFrom(s) /\ InDoneAll(s)
                         /\ OutDoneAll(s) /\ OkBoth(s))'
    BY <1>1, <2>1 DEF BridgeConnect, TypeOK
  <2> QED
    BY <2>2, <2>3, <2>4
<1>2. CASE BridgeConnectFails
  <2>1. "local" \in Side
    BY DEF Side
  <2>2. TypeOK'
    BY <1>2, <2>1 DEF BridgeConnectFails, FailWith, TypeOK, SessionState
  <2>3. Pipe'
    BY <1>2 DEF BridgeConnectFails, FailWith
  <2>4. (\A s \in Side : Early(s) /\ FinFrom(s) /\ InDoneAll(s)
                         /\ OutDoneAll(s) /\ OkBoth(s))'
    BY <1>2, <2>1 DEF BridgeConnectFails, FailWith, TypeOK
  <2> QED
    BY <2>2, <2>3, <2>4
<1>3. CASE Admit
  <2>1. "remote" \in Side
    BY DEF Side
  <2>2. TypeOK'
    BY <1>3, <2>1 DEF Admit, TypeOK, SessionState
  <2>3. Pipe'
    BY <1>3 DEF Admit
  <2>4. (\A s \in Side : Early(s) /\ FinFrom(s) /\ InDoneAll(s)
                         /\ OutDoneAll(s) /\ OkBoth(s))'
    BY <1>3, <2>1 DEF Admit, TypeOK
  <2> QED
    BY <2>2, <2>3, <2>4
<1>4. CASE Refuse
  <2>1. "remote" \in Side
    BY DEF Side
  <2>2. TypeOK'
    BY <1>4, <2>1 DEF Refuse, FailWith, TypeOK, SessionState
  <2>3. Pipe'
    BY <1>4 DEF Refuse, FailWith
  <2>4. (\A s \in Side : Early(s) /\ FinFrom(s) /\ InDoneAll(s)
                         /\ OutDoneAll(s) /\ OkBoth(s))'
    BY <1>4, <2>1 DEF Refuse, FailWith, TypeOK
  <2> QED
    BY <2>2, <2>3, <2>4
<1>5. CASE AcceptBi
  <2>1. "remote" \in Side
    BY DEF Side
  <2>2. TypeOK'
    BY <1>5, <2>1 DEF AcceptBi, TypeOK, SessionState
  <2>3. Pipe'
    BY <1>5 DEF AcceptBi
  <2>4. (\A s \in Side : Early(s) /\ FinFrom(s) /\ InDoneAll(s)
                         /\ OutDoneAll(s) /\ OkBoth(s))'
    BY <1>5, <2>1 DEF AcceptBi, TypeOK
  <2> QED
    BY <2>2, <2>3, <2>4
<1>6. CASE AcceptBiFails
  <2>1. "remote" \in Side
    BY DEF Side
  <2>2. TypeOK'
    BY <1>6, <2>1 DEF AcceptBiFails, FailWith, TypeOK, SessionState
  <2>3. Pipe'
    BY <1>6 DEF AcceptBiFails, FailWith
  <2>4. (\A s \in Side : Early(s) /\ FinFrom(s) /\ InDoneAll(s)
                         /\ OutDoneAll(s) /\ OkBoth(s))'
    BY <1>6, <2>1 DEF AcceptBiFails, FailWith, TypeOK
  <2> QED
    BY <2>2, <2>3, <2>4
<1>7. CASE DialBuildkitd
  <2>1. "remote" \in Side
    BY DEF Side
  <2>2. TypeOK'
    BY <1>7, <2>1 DEF DialBuildkitd, TypeOK, SessionState
  <2>3. Pipe'
    BY <1>7 DEF DialBuildkitd
  <2>4. (\A s \in Side : Early(s) /\ FinFrom(s) /\ InDoneAll(s)
                         /\ OutDoneAll(s) /\ OkBoth(s))'
    BY <1>7, <2>1 DEF DialBuildkitd, TypeOK
  <2> QED
    BY <2>2, <2>3, <2>4
<1>8. CASE DialFails
  <2>1. "remote" \in Side
    BY DEF Side
  <2>2. TypeOK'
    BY <1>8, <2>1 DEF DialFails, FailWith, TypeOK, SessionState
  <2>3. Pipe'
    BY <1>8 DEF DialFails, FailWith
  <2>4. (\A s \in Side : Early(s) /\ FinFrom(s) /\ InDoneAll(s)
                         /\ OutDoneAll(s) /\ OkBoth(s))'
    BY <1>8, <2>1 DEF DialFails, FailWith, TypeOK
  <2> QED
    BY <2>2, <2>3, <2>4
<1>9. ASSUME NEW t \in Side, Forward(t) PROVE IInv'
  <2>1. TypeOK'
    BY <1>9 DEF Forward, TypeOK, SessionState
  <2>2. Pipe'
    BY <1>9 DEF Forward, TypeOK
  <2>3. (\A s \in Side : Early(s) /\ FinFrom(s) /\ InDoneAll(s)
                         /\ OutDoneAll(s) /\ OkBoth(s))'
    BY <1>9 DEF Forward, TypeOK
  <2> QED
    BY <2>1, <2>2, <2>3
<1>10. ASSUME NEW t \in Side, ForwardEnd(t) PROVE IInv'
  <2>1. TypeOK'
    BY <1>10 DEF ForwardEnd, TypeOK, SessionState
  <2>2. Pipe'
    BY <1>10 DEF ForwardEnd, TypeOK
  <2>3. (\A s \in Side : Early(s) /\ FinFrom(s) /\ InDoneAll(s)
                         /\ OutDoneAll(s) /\ OkBoth(s))'
    BY <1>10 DEF ForwardEnd, TypeOK
  <2> QED
    BY <2>1, <2>2, <2>3
<1>11. ASSUME NEW t \in Side, Deliver(t) PROVE IInv'
  <2>1. TypeOK'
    BY <1>11 DEF Deliver, TypeOK, SessionState
  <2>2. Pipe'
    BY <1>11 DEF Deliver, TypeOK
  <2>3. (\A s \in Side : Early(s) /\ FinFrom(s) /\ InDoneAll(s)
                         /\ OutDoneAll(s) /\ OkBoth(s))'
    BY <1>11 DEF Deliver, TypeOK
  <2> QED
    BY <2>1, <2>2, <2>3
<1>12. ASSUME NEW t \in Side, DeliverEnd(t) PROVE IInv'
  <2>1. TypeOK'
    BY <1>12 DEF DeliverEnd, TypeOK, SessionState
  <2>2. Pipe'
    BY <1>12 DEF DeliverEnd, TypeOK
  <2>3. (\A s \in Side : Early(s) /\ FinFrom(s) /\ InDoneAll(s)
                         /\ OutDoneAll(s) /\ OkBoth(s))'
    BY <1>12 DEF DeliverEnd, TypeOK
  <2> QED
    BY <2>1, <2>2, <2>3
<1>13. ASSUME NEW t \in Side, Complete(t) PROVE IInv'
  <2>1. TypeOK'
    BY <1>13 DEF Complete, TypeOK, SessionState
  <2>2. Pipe'
    BY <1>13 DEF Complete, TypeOK
  <2>3. (\A s \in Side : Early(s) /\ FinFrom(s) /\ InDoneAll(s)
                         /\ OutDoneAll(s) /\ OkBoth(s))'
    BY <1>13 DEF Complete, TypeOK
  <2> QED
    BY <2>1, <2>2, <2>3
<1>14. ASSUME NEW t \in Side, ConnectionError(t) PROVE IInv'
  <2>1. PICK f \in {fin[t], TRUE} : FailWith(t, f)
    BY <1>14 DEF ConnectionError
  <2>2. /\ session' = [session EXCEPT ![t] = "err"]
        /\ fin' = [fin EXCEPT ![t] = f]
        /\ fin[t] => f
        /\ f \in BOOLEAN
        /\ session[t] = "copying"
    BY <1>14, <2>1 DEF ConnectionError, FailWith, TypeOK
  <2>3. TypeOK'
    BY <2>1, <2>2 DEF FailWith, TypeOK, SessionState
  <2>4. Pipe'
    BY <2>1 DEF FailWith
  <2>5. (\A s \in Side : Early(s) /\ FinFrom(s))'
    BY <2>1, <2>2 DEF FailWith, TypeOK
  <2>6. (\A s \in Side : InDoneAll(s) /\ OutDoneAll(s) /\ OkBoth(s))'
    BY <2>1, <2>2 DEF FailWith, TypeOK
  <2> QED
    BY <2>3, <2>4, <2>5, <2>6
<1>15. ASSUME NEW t \in Side, SocketError(t) PROVE IInv'
  <2>1. PICK f \in {fin[t], TRUE} : FailWith(t, f)
    BY <1>15 DEF SocketError
  <2>2. /\ session' = [session EXCEPT ![t] = "err"]
        /\ fin' = [fin EXCEPT ![t] = f]
        /\ fin[t] => f
        /\ f \in BOOLEAN
        /\ session[t] = "copying"
    BY <1>15, <2>1 DEF SocketError, FailWith, TypeOK
  <2>3. TypeOK'
    BY <2>1, <2>2 DEF FailWith, TypeOK, SessionState
  <2>4. Pipe'
    BY <2>1 DEF FailWith
  <2>5. (\A s \in Side : Early(s) /\ FinFrom(s))'
    BY <2>1, <2>2 DEF FailWith, TypeOK
  <2>6. (\A s \in Side : InDoneAll(s) /\ OutDoneAll(s) /\ OkBoth(s))'
    BY <2>1, <2>2 DEF FailWith, TypeOK
  <2> QED
    BY <2>3, <2>4, <2>5, <2>6
<1>16. ASSUME NEW t \in Side, AppWrite(t) PROVE IInv'
  <2>1. TypeOK'
    BY <1>16 DEF AppWrite, TypeOK, SessionState
  <2>2. Pipe'
    BY <1>16 DEF AppWrite, TypeOK
  <2>3. (\A s \in Side : Early(s) /\ FinFrom(s) /\ InDoneAll(s)
                         /\ OutDoneAll(s) /\ OkBoth(s))'
    BY <1>16 DEF AppWrite, TypeOK
  <2> QED
    BY <2>1, <2>2, <2>3
<1>17. ASSUME NEW t \in Side, AppShutdownWrite(t) PROVE IInv'
  <2>1. TypeOK'
    BY <1>17 DEF AppShutdownWrite, TypeOK, SessionState
  <2>2. Pipe'
    BY <1>17 DEF AppShutdownWrite, TypeOK
  <2>3. (\A s \in Side : Early(s) /\ FinFrom(s) /\ InDoneAll(s)
                         /\ OutDoneAll(s) /\ OkBoth(s))'
    BY <1>17 DEF AppShutdownWrite, TypeOK
  <2> QED
    BY <2>1, <2>2, <2>3
<1>18. ASSUME NEW t \in Side, AppClose(t) PROVE IInv'
  <2>1. TypeOK'
    BY <1>18 DEF AppClose, TypeOK, SessionState
  <2>2. Pipe'
    BY <1>18 DEF AppClose, TypeOK
  <2>3. (\A s \in Side : Early(s) /\ FinFrom(s) /\ InDoneAll(s)
                         /\ OutDoneAll(s) /\ OkBoth(s))'
    BY <1>18 DEF AppClose, TypeOK
  <2> QED
    BY <2>1, <2>2, <2>3
<1>19. CASE LoseConnection
  BY <1>19 DEF LoseConnection, TypeOK
<1>20. CASE UNCHANGED vars
  BY <1>20 DEF vars, TypeOK
<1> QED
  BY <1>1, <1>2, <1>3, <1>4, <1>5, <1>6, <1>7, <1>8, <1>9, <1>10, <1>11, <1>12, <1>13, <1>14, <1>15, <1>16, <1>17, <1>18, <1>19, <1>20
     DEF Next, SetUp, CopyIn, CopyOut, Return, Environment

-----------------------------------------------------------------------------
THEOREM Invariance == Spec => []IInv
<1> QED
  BY InitIInv, NextIInv, PTL DEF Spec

(* Counters and flags of the session keep their types. *)
THEOREM TypeCorrect == Spec => []TypeOK
<1>1. IInv => TypeOK
  BY DEF IInv
<1> QED
  BY <1>1, Invariance, PTL

(* A proxy task that returns Ok has forwarded all its application wrote. *)
THEOREM OkForwardedAllHolds == Spec => []OkForwardedAll
<1>1. IInv => OkForwardedAll
  BY DEF IInv, OkForwardedAll, OkBoth, InDoneAll
<1> QED
  BY <1>1, Invariance, PTL

(* When both logs say completed, every chunk of either application has     *)
(* been written to the socket of the other.                                *)
THEOREM CompletedHolds == Spec => []CompletedMeansComplete
<1>1. IInv => CompletedMeansComplete
  <2> SUFFICES ASSUME IInv, session["local"] = "ok", session["remote"] = "ok",
                      NEW s \in Side
               PROVE  delivered[Other(s)] = written[s]
    BY DEF CompletedMeansComplete
  <2>1. session[s] = "ok" /\ session[Other(s)] = "ok"
    BY DEF Side, Other
  <2>2. delivered[Other(s)] = sent[Other(Other(s))]
    BY <2>1, Sides DEF IInv, OkBoth, OutDoneAll
  <2>3. sent[s] = written[s]
    BY <2>1 DEF IInv, OkBoth, InDoneAll
  <2> QED
    BY <2>2, <2>3, Sides
<1> QED
  BY <1>1, Invariance, PTL

-----------------------------------------------------------------------------
(* The tunnel implements the byte pipe: every step is a step of it, or     *)
(* changes nothing of what the applications see.                           *)

(* The satellite's side has no application before it dials buildkitd. *)
AppAbsent ==
  session["remote"] \in {"none", "accepting", "dialing"} =>
    app["remote"] = "none"

LEMMA NextAppAbsent == TypeOK /\ AppAbsent /\ [Next]_vars => AppAbsent'
<1> SUFFICES ASSUME TypeOK, AppAbsent, [Next]_vars PROVE AppAbsent'
  OBVIOUS
<1> USE DEF AppAbsent, TypeOK
<1>1. CASE SetUp
  BY <1>1 DEF SetUp, BridgeConnect, BridgeConnectFails, Admit, Refuse, AcceptBi,
              AcceptBiFails, DialBuildkitd, DialFails, FailWith, Side
<1>2. ASSUME NEW s \in Side, CopyIn(s) \/ CopyOut(s) PROVE AppAbsent'
  BY <1>2 DEF CopyIn, CopyOut, Forward, ForwardEnd, Deliver, DeliverEnd
<1>3. ASSUME NEW s \in Side, Return(s) PROVE AppAbsent'
  <2>1. PICK e \in {"ok", "err"} :
           session' = [session EXCEPT ![s] = e] /\ app' = app
    BY <1>3 DEF Return, Complete, ConnectionError, SocketError, FailWith
  <2>2. "remote" \in Side
    BY DEF Side
  <2>3. session'["remote"] = session["remote"] \/ session'["remote"] = e
    BY <2>1, <2>2
  <2> QED
    BY <2>1, <2>3
<1>4. ASSUME NEW s \in Side, AppWrite(s) PROVE AppAbsent'
  BY <1>4 DEF AppWrite
<1>5. ASSUME NEW s \in Side, AppShutdownWrite(s) \/ AppClose(s) PROVE AppAbsent'
  <2>1. PICK a : session' = session /\ app[s] # "none"
                 /\ app' = [app EXCEPT ![s] = a]
    BY <1>5 DEF AppShutdownWrite, AppClose
  <2>2. CASE s = "remote"
    BY <2>1, <2>2
  <2>3. CASE s # "remote"
    BY <2>1, <2>3 DEF Side
  <2> QED
    BY <2>2, <2>3
<1>6. CASE LoseConnection
  BY <1>6 DEF LoseConnection
<1> QED
  BY <1>1, <1>2, <1>3, <1>4, <1>5, <1>6 DEF Next, Environment, vars

LEMMA InitRefines == Init => Abs!Init
<1> SUFFICES ASSUME Init PROVE Abs!Init
  OBVIOUS
<1>1. PipeEnd = [s \in Side |-> IF s = "local" THEN "open" ELSE "absent"]
  <2>1. \A s \in Side :
           session[s] = IF s = "local" THEN "connecting" ELSE "none"
    BY DEF Init
  <2> QED
    BY <2>1 DEF PipeEnd, Ended
<1>2. PipeShut = [s \in Side |-> FALSE]
  <2>1. \A s \in Side : (app[s] \in {"shut", "closed"}) = FALSE
    BY DEF Init
  <2> QED
    BY <2>1, Zenon DEF PipeShut
<1>3. written = [s \in Side |-> 0] /\ delivered = [s \in Side |-> 0]
  BY DEF Init
<1> QED
  BY <1>1, <1>2, <1>3 DEF Abs!Init, Abs!Side, Side

(* A task that fails, at any point before it returned, is a Fail. *)
LEMMA FailRefines ==
  ASSUME IInv, NEW s \in Side, NEW f, FailWith(s, f), ~Ended(s)
  PROVE  Abs!Next
<1>1. /\ session \in [Side -> SessionState]
      /\ session' = [session EXCEPT ![s] = "err"]
      /\ UNCHANGED <<app, written, delivered>>
  BY DEF FailWith, IInv, TypeOK
<1>2. PipeEnd' = [PipeEnd EXCEPT ![s] = "err"]
  BY <1>1 DEF PipeEnd, Ended
<1>3. PipeEnd[s] \notin {"ok", "err"}
  BY DEF PipeEnd, Ended
<1>4. UNCHANGED <<written, PipeShut, delivered>>
  BY <1>1 DEF PipeShut
<1>5. Abs!Fail(s)
  BY <1>2, <1>3, <1>4 DEF Abs!Fail, Abs!Ended
<1> QED
  BY <1>5 DEF Abs!Next, Abs!Side, Side

(* A step between two points at which the session is open is not seen. *)
LEMMA OpenStutters ==
  ASSUME IInv, NEW s \in Side, NEW to,
         session[s] \notin {"none", "ok", "err"},
         to \notin {"none", "ok", "err"},
         session' = [session EXCEPT ![s] = to]
  PROVE  PipeEnd' = PipeEnd
<1>1. session \in [Side -> SessionState]
  BY DEF IInv, TypeOK
<1> QED
  BY <1>1 DEF PipeEnd, Ended

LEMMA NextRefines == IInv /\ AppAbsent /\ [Next]_vars => [Abs!Next]_Abs!vars
<1> SUFFICES ASSUME IInv, AppAbsent, [Next]_vars PROVE [Abs!Next]_Abs!vars
  OBVIOUS
<1> USE DEF Abs!vars
<1>a. /\ session \in [Side -> SessionState]
      /\ app \in [Side -> {"none", "open", "shut", "closed"}]
      /\ written \in [Side -> 0 .. MaxChunks]
      /\ delivered \in [Side -> 0 .. MaxChunks]
  BY DEF IInv, TypeOK
<1>b. "local" \in Side /\ "remote" \in Side
  BY DEF Side
<1>1. CASE BridgeConnect
  BY <1>1, <1>b, OpenStutters DEF BridgeConnect, PipeShut
<1>2. CASE BridgeConnectFails
  BY <1>2, <1>b, FailRefines DEF BridgeConnectFails, Ended
<1>3. CASE Admit
  <2>1. /\ session["remote"] = "none"
        /\ session' = [session EXCEPT !["remote"] = "accepting"]
        /\ UNCHANGED <<app, written, delivered>>
    BY <1>3 DEF Admit
  <2>2. PipeEnd' = [PipeEnd EXCEPT !["remote"] = "open"]
    BY <2>1, <1>a, <1>b DEF PipeEnd, Ended
  <2>3. PipeEnd["remote"] = "absent"
    BY <2>1, <1>b DEF PipeEnd
  <2>4. Abs!Join
    BY <2>1, <2>2, <2>3 DEF Abs!Join, PipeShut
  <2> QED
    BY <2>4 DEF Abs!Next
<1>4. CASE Refuse
  BY <1>4, <1>b, FailRefines DEF Refuse, Ended
<1>5. CASE AcceptBi
  BY <1>5, <1>b, OpenStutters DEF AcceptBi, PipeShut
<1>6. CASE AcceptBiFails
  BY <1>6, <1>b, FailRefines DEF AcceptBiFails, Ended
<1>7. CASE DialBuildkitd
  <2>1. PipeEnd' = PipeEnd
    BY <1>7, <1>b, OpenStutters DEF DialBuildkitd
  <2>2. app["remote"] = "none"
    BY <1>7, <1>b DEF DialBuildkitd, AppAbsent
  <2>3. PipeShut' = PipeShut
    BY <1>7, <1>a, <1>b, <2>2 DEF DialBuildkitd, PipeShut
  <2> QED
    BY <1>7, <2>1, <2>3 DEF DialBuildkitd
<1>8. CASE DialFails
  BY <1>8, <1>b, FailRefines DEF DialFails, Ended
<1>9. ASSUME NEW s \in Side, CopyIn(s)
      PROVE  [Abs!Next]_Abs!vars
  BY <1>9 DEF CopyIn, Forward, ForwardEnd, PipeEnd, PipeShut, Ended
<1>10. ASSUME NEW s \in Side, Deliver(s)
       PROVE  [Abs!Next]_Abs!vars
  <2>1. /\ session[s] = "copying"
        /\ delivered[s] < sent[Other(s)]
        /\ delivered' = [delivered EXCEPT ![s] = delivered[s] + 1]
        /\ UNCHANGED <<session, app, written>>
    BY <1>10 DEF Deliver
  <2>2. delivered[s] < written[Other(s)]
    <3>1. sent[Other(s)] <= written[Other(s)] /\ Other(s) \in Side
      BY Sides DEF IInv, Pipe
    <3>2. /\ delivered[s] \in Nat /\ sent[Other(s)] \in Nat
          /\ written[Other(s)] \in Nat
      BY Sides, ChunkBound DEF IInv, TypeOK
    <3> QED
      BY <2>1, <3>1, <3>2
  <2>3. PipeEnd[s] = "open" /\ UNCHANGED <<PipeEnd, PipeShut>>
    BY <2>1 DEF PipeEnd, PipeShut, Ended
  <2>4. Abs!Get(s)
    BY <2>1, <2>2, <2>3 DEF Abs!Get, Abs!Other, Other
  <2> QED
    BY <2>4 DEF Abs!Next, Abs!Side, Side
<1>11. ASSUME NEW s \in Side, DeliverEnd(s)
       PROVE  [Abs!Next]_Abs!vars
  BY <1>11 DEF DeliverEnd, PipeEnd, PipeShut, Ended
<1>12. ASSUME NEW s \in Side, Complete(s)
       PROVE  [Abs!Next]_Abs!vars
  <2>1. /\ session[s] = "copying" /\ inDone[s] /\ outDone[s]
        /\ session' = [session EXCEPT ![s] = "ok"]
        /\ UNCHANGED <<app, written, delivered>>
    BY <1>12 DEF Complete
  <2>2. PipeEnd[s] = "open" /\ PipeEnd' = [PipeEnd EXCEPT ![s] = "ok"]
    BY <2>1, <1>a DEF PipeEnd, Ended
  <2>3. PipeShut[s] /\ UNCHANGED PipeShut
    BY <2>1 DEF IInv, InDoneAll, PipeShut
  <2>4. fin[Other(s)] /\ delivered[s] = sent[Other(s)]
    BY <2>1 DEF IInv, OutDoneAll
  <2>5. \/ PipeShut[Other(s)] /\ delivered[s] = written[Other(s)]
        \/ PipeEnd[Other(s)] = "err"
    <3>1. CASE inDone[Other(s)]
      BY <3>1, <2>4, Sides DEF IInv, InDoneAll, PipeShut
    <3>2. CASE session[Other(s)] = "ok"
      BY <3>2, <2>4, Sides DEF IInv, OkBoth, InDoneAll, PipeShut
    <3>3. CASE session[Other(s)] = "err"
      BY <3>3, Sides DEF PipeEnd, Ended
    <3> QED
      BY <2>4, <3>1, <3>2, <3>3, Sides DEF IInv, FinFrom, Ended
  <2>6. Abs!Succeed(s)
    BY <2>1, <2>2, <2>3, <2>5 DEF Abs!Succeed, Abs!Other, Other
  <2> QED
    BY <2>6 DEF Abs!Next, Abs!Side, Side
<1>13. ASSUME NEW s \in Side, ConnectionError(s) \/ SocketError(s)
       PROVE  [Abs!Next]_Abs!vars
  BY <1>13, FailRefines DEF ConnectionError, SocketError, Ended
<1>14. ASSUME NEW s \in Side, AppWrite(s)
       PROVE  [Abs!Next]_Abs!vars
  <2>1. ~PipeShut[s] /\ UNCHANGED <<PipeEnd, PipeShut>>
    BY <1>14 DEF AppWrite, PipeEnd, PipeShut, Ended
  <2>2. Abs!Put(s)
    BY <1>14, <2>1 DEF AppWrite, Abs!Put
  <2> QED
    BY <2>2 DEF Abs!Next, Abs!Side, Side
<1>15. ASSUME NEW s \in Side, AppShutdownWrite(s) \/ AppClose(s)
       PROVE  [Abs!Next]_Abs!vars
  <2>1. \E to \in {"shut", "closed"} : app' = [app EXCEPT ![s] = to]
    BY <1>15 DEF AppShutdownWrite, AppClose
  <2>2. UNCHANGED <<session, written, delivered, PipeEnd>>
    BY <1>15 DEF AppShutdownWrite, AppClose, PipeEnd, Ended
  <2>3. CASE app[s] = "shut"
    BY <1>a, <2>1, <2>2, <2>3 DEF PipeShut
  <2>4. CASE app[s] = "open"
    <3>1. ~PipeShut[s] /\ PipeShut' = [PipeShut EXCEPT ![s] = TRUE]
      BY <1>a, <2>1, <2>4 DEF PipeShut
    <3>2. Abs!Shut(s)
      BY <2>2, <3>1 DEF Abs!Shut
    <3> QED
      BY <3>2 DEF Abs!Next, Abs!Side, Side
  <2> QED
    BY <1>15, <2>3, <2>4 DEF AppShutdownWrite, AppClose
<1>16. CASE LoseConnection
  BY <1>16 DEF LoseConnection, PipeEnd, PipeShut, Ended
<1>17. CASE UNCHANGED vars
  BY <1>17 DEF vars, PipeEnd, PipeShut, Ended
<1> QED
  BY <1>1, <1>2, <1>3, <1>4, <1>5, <1>6, <1>7, <1>8, <1>9, <1>10, <1>11,
     <1>12, <1>13, <1>14, <1>15, <1>16, <1>17
     DEF Next, SetUp, CopyOut, Return, Environment

(* The two proxies and their connection are a byte pipe to the             *)
(* applications, but for its fairness, which only TLC checks.              *)
THEOREM Refinement == Spec => Abs!Spec
<1>1. Init => AppAbsent
  BY DEF Init, AppAbsent, Side
<1>2. IInv => TypeOK
  BY DEF IInv
<1> QED
  BY <1>1, <1>2, NextAppAbsent, InitRefines, NextRefines, Invariance, PTL
     DEF Spec, Abs!Spec

-----------------------------------------------------------------------------
(* Why a session that both applications have hung up on ends: until it     *)
(* has, some proxy has a step to take, and every step takes it closer.     *)

(* The satellite's side exists once the bridge's has connected. *)
Reached ==
  /\ session["local"] \in {"connecting", "copying", "ok", "err"}
  /\ session["remote"] \in {"none", "accepting", "dialing", "copying", "ok", "err"}
  /\ session["remote"] # "none" => session["local"] # "connecting"

(* A copy into the stream that ends well finishes it. *)
InDoneFin == \A s \in Side : inDone[s] => fin[s]

HInv == IInv /\ AppAbsent /\ Reached /\ InDoneFin

HungUp == app["local"] = "closed" /\ app["remote"] = "closed"

(* What a proxy whose application has closed may do: the guards of Forward *)
(* and ForwardEnd, DeliverEnd, SocketError, Complete, and ConnectionError  *)
(* of the copy out of the stream.                                          *)
Movable(s) ==
  /\ session[s] = "copying"
  /\ \/ ~inDone[s] /\ sent[s] <= written[s]
     \/ ~outDone[s] /\ fin[Other(s)] /\ delivered[s] = sent[Other(s)]
     \/ ~outDone[s] /\ delivered[s] < sent[Other(s)]
     \/ inDone[s] /\ outDone[s]
     \/ ~outDone[s] /\ Gone(s)

(* The chunks to forward, the copies to end and the task to return. *)
Left(s) ==
  (written[s] - sent[s]) + (IF inDone[s] THEN 0 ELSE 1)
    + (IF outDone[s] THEN 0 ELSE 1) + (IF Ended(s) THEN 0 ELSE 1)

Work == Left("local") + Left("remote")

LEMMA NextReached == TypeOK /\ Reached /\ [Next]_vars => Reached'
<1> SUFFICES ASSUME TypeOK, Reached, [Next]_vars PROVE Reached'
  OBVIOUS
<1>1. session \in [Side -> SessionState] /\ "local" \in Side /\ "remote" \in Side
  BY DEF TypeOK, Side
<1>2. CASE UNCHANGED session
  BY <1>2 DEF Reached
<1>3. CASE SetUp
  BY <1>1, <1>3 DEF SetUp, BridgeConnect, BridgeConnectFails, Admit, Refuse, AcceptBi,
     AcceptBiFails, DialBuildkitd, DialFails, FailWith, Reached
<1>4. ASSUME NEW s \in Side, Return(s)
      PROVE  Reached'
  <2>1. session[s] = "copying" /\ \E e \in {"ok", "err"} :
          session' = [session EXCEPT ![s] = e]
    BY <1>4 DEF Return, Complete, ConnectionError, SocketError, FailWith
  <2> QED
    BY <1>1, <2>1 DEF Reached
<1> QED
  BY <1>2, <1>3, <1>4 DEF Next, CopyIn, CopyOut, Forward, ForwardEnd, Deliver,
     DeliverEnd, Environment, AppWrite, AppShutdownWrite, AppClose, LoseConnection, vars

LEMMA NextInDoneFin == IInv /\ InDoneFin /\ [Next]_vars => InDoneFin'
<1> SUFFICES ASSUME IInv, InDoneFin, [Next]_vars PROVE InDoneFin'
  OBVIOUS
<1>1. /\ inDone \in [Side -> BOOLEAN] /\ fin \in [Side -> BOOLEAN]
      /\ "local" \in Side /\ "remote" \in Side
  BY DEF IInv, TypeOK, Side
<1>2. CASE UNCHANGED <<inDone, fin>>
  BY <1>2 DEF InDoneFin
<1>3. CASE SetUp
  BY <1>1, <1>2, <1>3 DEF SetUp, BridgeConnect, BridgeConnectFails, Admit, Refuse,
     AcceptBi, AcceptBiFails, DialBuildkitd, DialFails, FailWith, copying,
     InDoneFin, IInv, Early
<1>4. ASSUME NEW s \in Side, CopyIn(s) \/ CopyOut(s) \/ Return(s)
      PROVE  InDoneFin'
  BY <1>1, <1>2, <1>4 DEF CopyIn, CopyOut, Return, Forward, ForwardEnd, Deliver,
     DeliverEnd, Complete, ConnectionError, SocketError, FailWith, copying, InDoneFin
<1> QED
  BY <1>2, <1>3, <1>4 DEF Next, Environment, AppWrite, AppShutdownWrite, AppClose,
     LoseConnection, copying, vars

(* Both proxies copy or have ended by the time both applications closed. *)
LEMMA HungUpStates ==
  ASSUME HInv, HungUp, NEW s \in Side
  PROVE  session[s] \in {"copying", "ok", "err"} /\ app[s] = "closed"
<1>1. app["remote"] # "none"
  BY DEF HungUp
<1>2. session["remote"] \in {"copying", "ok", "err"}
  BY <1>1 DEF HInv, AppAbsent, Reached
<1> QED
  BY <1>2 DEF HInv, Reached, HungUp, Side

LEMMA HungUpMovable ==
  ASSUME HInv, HungUp, NEW s \in Side, ~Ended(s)
  PROVE  Movable(s) \/ Movable(Other(s))
<1>1. /\ session[s] = "copying"
      /\ session[Other(s)] \in {"copying", "ok", "err"}
      /\ Other(s) \in Side /\ Other(Other(s)) = s
  BY Sides, HungUpStates DEF Ended
<1>2. /\ sent[s] <= written[s] /\ sent[Other(s)] <= written[Other(s)]
      /\ delivered[s] <= sent[Other(s)]
      /\ sent[Other(s)] \in Nat /\ delivered[s] \in Nat
  BY <1>1, ChunkBound DEF HInv, IInv, Pipe, TypeOK
<1>3. CASE Ended(Other(s))
  BY <1>1, <1>2, <1>3 DEF Movable, Gone
<1>4. CASE ~Ended(Other(s)) /\ inDone[Other(s)]
  BY <1>1, <1>2, <1>4 DEF Movable, HInv, InDoneFin
<1>5. CASE ~Ended(Other(s)) /\ ~inDone[Other(s)]
  BY <1>1, <1>2, <1>5 DEF Movable, Ended
<1> QED
  BY <1>3, <1>4, <1>5

(* A session that both applications have hung up on is not stuck: until it *)
(* has ended on both sides, the guard of some step of a proxy holds.       *)
THEOREM HungUpMoves ==
  Spec => [](HungUp => (\A s \in Side : Ended(s)) \/ \E s \in Side : Movable(s))
<1>1. Init => HInv
  BY InitIInv DEF Init, HInv, AppAbsent, Reached, InDoneFin, Side
<1>2. HInv /\ [Next]_vars => HInv'
  BY NextIInv, NextAppAbsent, NextReached, NextInDoneFin DEF HInv, IInv
<1>3. HInv => (HungUp => (\A s \in Side : Ended(s)) \/ \E s \in Side : Movable(s))
  BY HungUpMovable, Sides
<1> QED
  BY <1>1, <1>2, <1>3, PTL DEF Spec

LEMMA LeftNat == ASSUME TypeOK, Pipe PROVE \A s \in Side : Left(s) \in Nat
<1>1. \A s \in Side : written[s] \in Nat /\ sent[s] \in Nat /\ sent[s] <= written[s]
  BY ChunkBound DEF TypeOK, Pipe
<1>2. \A s \in Side : written[s] - sent[s] \in Nat
  BY <1>1
<1> QED
  BY <1>2 DEF Left

LEMMA WorkNat == ASSUME TypeOK, Pipe PROVE Work \in Nat
<1>1. Left("local") \in Nat /\ Left("remote") \in Nat
  BY LeftNat DEF Side
<1> QED
  BY <1>1 DEF Work

LEMMA WorkShrinks ==
  ASSUME TypeOK, Pipe, TypeOK', Pipe', NEW s \in Side,
         Left(s)' < Left(s), Left(Other(s))' = Left(Other(s))
  PROVE  Work' < Work
<1>1. /\ Left("local") \in Nat /\ Left("remote") \in Nat
      /\ Left("local")' \in Nat /\ Left("remote")' \in Nat
  <2>1. \A t \in Side : /\ written'[t] \in Nat /\ sent'[t] \in Nat
                         /\ sent'[t] <= written'[t]
    BY ChunkBound DEF TypeOK, Pipe
  <2>2. \A t \in Side : written'[t] - sent'[t] \in Nat
    BY <2>1
  <2>3. \A t \in Side : Left(t)' \in Nat
    BY <2>2 DEF Left
  <2> QED
    BY <2>3, LeftNat DEF Side
<1>2. CASE s = "local"
  BY <1>1, <1>2 DEF Work, Other
<1>3. CASE s = "remote"
  BY <1>1, <1>3 DEF Work, Other
<1> QED
  BY <1>2, <1>3 DEF Side

LEMMA HungUpStep ==
  ASSUME HInv, HungUp, Next
  PROVE  HungUp' /\ (lost' # lost \/ Work' < Work)
<1>1. \A s \in Side : session[s] \in {"copying", "ok", "err"} /\ app[s] = "closed"
  BY HungUpStates
<1>2. "local" \in Side /\ "remote" \in Side
  BY DEF Side
<1>3. ~SetUp
  BY <1>1, <1>2 DEF SetUp, BridgeConnect, BridgeConnectFails, Admit, Refuse, AcceptBi,
                    AcceptBiFails, DialBuildkitd, DialFails
<1>4. \A s \in Side : ~AppWrite(s) /\ ~AppShutdownWrite(s) /\ ~AppClose(s)
  BY <1>1 DEF AppWrite, AppShutdownWrite, AppClose
<1>5. CASE LoseConnection
  BY <1>5 DEF LoseConnection, HungUp
<1>6. TypeOK /\ Pipe /\ TypeOK' /\ Pipe'
  BY NextIInv DEF HInv, IInv
<1>7. ASSUME NEW s \in Side, CopyIn(s) \/ CopyOut(s) \/ Return(s)
      PROVE  HungUp' /\ Work' < Work
  <2> DEFINE o == Other(s)
  <2>1. /\ o \in Side /\ o # s /\ TypeOK
        /\ written[s] \in Nat /\ sent[s] \in Nat /\ written[o] \in Nat /\ sent[o] \in Nat
    BY Sides, ChunkBound DEF HInv, IInv, TypeOK
  <2>2. UNCHANGED <<app, written>>
    BY <1>7 DEF CopyIn, CopyOut, Return, Forward, ForwardEnd, Deliver, DeliverEnd,
                Complete, ConnectionError, SocketError, FailWith
  <2>3. HungUp' /\ ~Deliver(s)
    BY <1>1, <2>2 DEF Deliver, HungUp
  <2>4. /\ sent'[o] = sent[o] /\ inDone'[o] = inDone[o] /\ outDone'[o] = outDone[o]
        /\ session'[o] = session[o]
    BY <1>7, <2>1 DEF CopyIn, CopyOut, Return, Forward, ForwardEnd, Deliver, DeliverEnd,
       Complete, ConnectionError, SocketError, FailWith, copying, TypeOK
  <2>5. Left(o)' = Left(o)
    BY <2>2, <2>4 DEF Left, Ended
  <2>6. CASE Forward(s)
    <3>1. /\ sent'[s] = sent[s] + 1 /\ session' = session
          /\ inDone' = inDone /\ outDone' = outDone
      BY <2>1, <2>6 DEF Forward, copying, TypeOK
    <3>2. Left(s)' < Left(s)
      BY <2>1, <2>2, <3>1 DEF Left, Ended
    <3> QED
      BY <1>6, <2>1, <2>3, <2>5, <3>2, WorkShrinks
  <2>7. CASE ForwardEnd(s)
    <3>1. /\ sent' = sent /\ session' = session /\ outDone' = outDone
          /\ ~inDone[s] /\ inDone'[s]
      BY <2>1, <2>7 DEF ForwardEnd, TypeOK
    <3>2. Left(s)' < Left(s)
      BY <2>1, <2>2, <3>1 DEF Left, Ended
    <3> QED
      BY <1>6, <2>1, <2>3, <2>5, <3>2, WorkShrinks
  <2>8. CASE DeliverEnd(s)
    <3>1. /\ sent' = sent /\ session' = session /\ inDone' = inDone
          /\ ~outDone[s] /\ outDone'[s]
      BY <2>1, <2>8 DEF DeliverEnd, TypeOK
    <3>2. Left(s)' < Left(s)
      BY <2>1, <2>2, <3>1 DEF Left, Ended
    <3> QED
      BY <1>6, <2>1, <2>3, <2>5, <3>2, WorkShrinks
  <2>9. CASE Return(s)
    <3>1. /\ sent' = sent /\ inDone' = inDone /\ outDone' = outDone
          /\ session[s] = "copying" /\ session'[s] \in {"ok", "err"}
      BY <2>1, <2>9 DEF Return, Complete, ConnectionError, SocketError, FailWith,
                        copying, TypeOK
    <3>2. Left(s)' < Left(s)
      BY <2>1, <2>2, <3>1 DEF Left, Ended
    <3> QED
      BY <1>6, <2>1, <2>3, <2>5, <3>2, WorkShrinks
  <2> QED
    BY <1>7, <2>3, <2>6, <2>7, <2>8, <2>9 DEF CopyIn, CopyOut
<1> QED
  BY <1>3, <1>4, <1>5, <1>7 DEF Next, Environment

(* And it cannot go on for ever: what is left to do is a natural number    *)
(* that every step but the loss of the connection, of which there is at    *)
(* most one, makes smaller.  HungUpEnds rests on these two and fairness.   *)
THEOREM HungUpRunsDown ==
  Spec => [](Work \in Nat) /\ [][HungUp => HungUp' /\ (lost' # lost \/ Work' < Work)]_vars
<1>1. Init => HInv
  BY InitIInv DEF Init, HInv, AppAbsent, Reached, InDoneFin, Side
<1>2. HInv /\ [Next]_vars => HInv'
  BY NextIInv, NextAppAbsent, NextReached, NextInDoneFin DEF HInv, IInv
<1>3. HInv => Work \in Nat
  BY WorkNat DEF HInv, IInv
<1>4. HInv /\ [Next]_vars =>
        [HungUp => HungUp' /\ (lost' # lost \/ Work' < Work)]_vars
  BY HungUpStep
<1> QED
  BY <1>1, <1>2, <1>3, <1>4, PTL DEF Spec
=============================================================================
