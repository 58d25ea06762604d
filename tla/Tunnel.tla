------------------------------- MODULE Tunnel -------------------------------
(***************************************************************************)
(* One build session, end to end: a Docker client on the bridge's Unix     *)
(* socket, proxy_session in mission control, one QUIC connection with one  *)
(* bidirectional stream, the gated BuildProxy::accept on the satellite,    *)
(* and buildkitd behind its own Unix socket.                               *)
(*                                                                         *)
(* The copy loops of the two proxies are the same code on both sides, so   *)
(* the model is symmetric: side "local" is the bridge with the client as   *)
(* its application, side "remote" is the satellite with buildkitd.  Data   *)
(* is counted in chunks.  The network, the client and buildkitd are        *)
(* external: the connection may be lost, and either application may write, *)
(* shut down its writing side or close at any time.  Both are taken to     *)
(* read what they are given.                                               *)
(***************************************************************************)
EXTENDS Naturals

CONSTANT MaxChunks   \* bound: chunks each application writes

ASSUME ChunkBound == MaxChunks \in Nat

VARIABLES
  session,    \* per side, where the proxy task stands
  app,        \* per side, the application's end of the Unix socket
  written,    \* per side, chunks the application wrote to its socket
  sent,       \* per side, chunks the proxy copied into its QUIC stream
  delivered,  \* per side, chunks the proxy copied out to its application
  inDone,     \* per side, the copy from the socket returned Ok
  outDone,    \* per side, the copy to the socket returned Ok
  fin,        \* per side, the QUIC send stream is finished
  lost        \* the QUIC connection broke

copying == <<inDone, outDone, fin>>
vars == <<session, app, written, sent, delivered, copying, lost>>

Side == {"local", "remote"}
Other(s) == IF s = "local" THEN "remote" ELSE "local"

(* none: no task yet; connecting: endpoint.connect; accepting: in          *)
(* accept_bi; dialing: connecting to buildkitd; copying: in try_join.      *)
SessionState ==
  {"none", "connecting", "accepting", "dialing", "copying", "ok", "err"}

Ended(s) == session[s] \in {"ok", "err"}

(* Mutant: only a lost connection is noticed. *)
GoneLostOnly(s) == lost

(* A side learns that the connection is gone once it is lost or once the   *)
(* other task has returned, which drops the other end of it.               *)
Gone(s) == lost \/ Ended(Other(s))

-----------------------------------------------------------------------------
(* The client has connected and the accept loop has spawned its task. *)
Init ==
  /\ session = [s \in Side |-> IF s = "local" THEN "connecting" ELSE "none"]
  /\ app = [s \in Side |-> IF s = "local" THEN "open" ELSE "none"]
  /\ written = [s \in Side |-> 0]
  /\ sent = [s \in Side |-> 0]
  /\ delivered = [s \in Side |-> 0]
  /\ inDone = [s \in Side |-> FALSE]
  /\ outDone = [s \in Side |-> FALSE]
  /\ fin = [s \in Side |-> FALSE]
  /\ lost = FALSE

(* Returning drops the Unix stream and the connection; a send stream that  *)
(* is dropped unfinished may still be finished by the transport.           *)
FailWith(s, finished) ==
  /\ session' = [session EXCEPT ![s] = "err"]
  /\ fin' = [fin EXCEPT ![s] = finished]
  /\ UNCHANGED <<app, written, sent, delivered, inDone, outDone, lost>>

-----------------------------------------------------------------------------
(* Setting the session up.                                                 *)

(* endpoint.connect, open_bi and the split of the Unix stream. *)
BridgeConnect ==
  /\ session["local"] = "connecting"
  /\ ~lost
  /\ session' = [session EXCEPT !["local"] = "copying"]
  /\ UNCHANGED <<app, written, sent, delivered, copying, lost>>

BridgeConnectFails ==
  /\ session["local"] = "connecting"
  /\ FailWith("local", FALSE)

(* AccessLimit hands the connection to BuildProxy, or closes it. *)
Admit ==
  /\ session["local"] \notin {"none", "connecting"}
  /\ session["remote"] = "none"
  /\ ~lost
  /\ session' = [session EXCEPT !["remote"] = "accepting"]
  /\ UNCHANGED <<app, written, sent, delivered, copying, lost>>

Refuse ==
  /\ session["local"] \notin {"none", "connecting"}
  /\ session["remote"] = "none"
  /\ ~lost
  /\ FailWith("remote", FALSE)

(* accept_bi: a stream is announced to the peer by its first bytes or its  *)
(* end, so this waits for the client to speak.                             *)
AcceptBi ==
  /\ session["remote"] = "accepting"
  /\ sent["local"] > 0 \/ fin["local"]
  /\ session' = [session EXCEPT !["remote"] = "dialing"]
  /\ UNCHANGED <<app, written, sent, delivered, copying, lost>>

AcceptBiFails ==
  /\ session["remote"] = "accepting"
  /\ Gone("remote")
  /\ FailWith("remote", FALSE)

DialBuildkitd ==
  /\ session["remote"] = "dialing"
  /\ session' = [session EXCEPT !["remote"] = "copying"]
  /\ app' = [app EXCEPT !["remote"] = "open"]
  /\ UNCHANGED <<written, sent, delivered, copying, lost>>

DialFails ==
  /\ session["remote"] = "dialing"
  /\ \E f \in BOOLEAN : FailWith("remote", f)

-----------------------------------------------------------------------------
(* The two copies and their try_join.                                      *)

(* Mutant: a chunk that has been sent is sent again. *)
ForwardResends(s) ==
  /\ session[s] = "copying"
  /\ ~inDone[s]
  /\ written[s] > 0
  /\ sent[s] <= MaxChunks
  /\ sent' = [sent EXCEPT ![s] = sent[s] + 1]
  /\ UNCHANGED <<session, app, written, delivered, copying, lost>>

(* One read and write of the copy from the Unix socket to the QUIC stream. *)
Forward(s) ==
  /\ session[s] = "copying"
  /\ ~inDone[s]
  /\ sent[s] < written[s]
  /\ sent' = [sent EXCEPT ![s] = sent[s] + 1]
  /\ UNCHANGED <<session, app, written, delivered, copying, lost>>

(* Mutant: the end of the socket does not finish the stream. *)
ForwardEndOpen(s) ==
  /\ session[s] = "copying"
  /\ ~inDone[s]
  /\ app[s] \in {"shut", "closed"}
  /\ sent[s] = written[s]
  /\ inDone' = [inDone EXCEPT ![s] = TRUE]
  /\ UNCHANGED <<session, app, written, sent, delivered, outDone, fin, lost>>

(* Mutant: the copy stops with data still unread. *)
ForwardEndEarly(s) ==
  /\ session[s] = "copying"
  /\ ~inDone[s]
  /\ app[s] \in {"shut", "closed"}
  /\ inDone' = [inDone EXCEPT ![s] = TRUE]
  /\ fin' = [fin EXCEPT ![s] = TRUE]
  /\ UNCHANGED <<session, app, written, sent, delivered, outDone, lost>>

(* End of file on the Unix socket: the QUIC stream is finished. *)
ForwardEnd(s) ==
  /\ session[s] = "copying"
  /\ ~inDone[s]
  /\ app[s] \in {"shut", "closed"}
  /\ sent[s] = written[s]
  /\ inDone' = [inDone EXCEPT ![s] = TRUE]
  /\ fin' = [fin EXCEPT ![s] = TRUE]
  /\ UNCHANGED <<session, app, written, sent, delivered, outDone, lost>>

(* One read and write of the copy from the QUIC stream to the Unix socket. *)
Deliver(s) ==
  /\ session[s] = "copying"
  /\ ~outDone[s]
  /\ app[s] # "closed"
  /\ delivered[s] < sent[Other(s)]
  /\ delivered' = [delivered EXCEPT ![s] = delivered[s] + 1]
  /\ UNCHANGED <<session, app, written, sent, copying, lost>>

(* End of the QUIC stream.  The write half of the Unix socket is left      *)
(* open: the application is not told.                                      *)
DeliverEnd(s) ==
  /\ session[s] = "copying"
  /\ ~outDone[s]
  /\ fin[Other(s)]
  /\ delivered[s] = sent[Other(s)]
  /\ outDone' = [outDone EXCEPT ![s] = TRUE]
  /\ UNCHANGED <<session, app, written, sent, delivered, inDone, fin, lost>>

(* Mutant: select instead of join, the first copy to end ends the session. *)
CompleteOnFirst(s) ==
  /\ session[s] = "copying"
  /\ inDone[s] \/ outDone[s]
  /\ session' = [session EXCEPT ![s] = "ok"]
  /\ UNCHANGED <<app, written, sent, delivered, copying, lost>>

(* Both copies returned Ok: try_join does, and the task returns. *)
Complete(s) ==
  /\ session[s] = "copying"
  /\ inDone[s] /\ outDone[s]
  /\ session' = [session EXCEPT ![s] = "ok"]
  /\ UNCHANGED <<app, written, sent, delivered, copying, lost>>

(* A copy that reads or writes its QUIC stream fails because the           *)
(* connection is gone.  The copy into the stream writes only when it has   *)
(* read something: while it waits for its application it notices nothing,  *)
(* and at end of file the error of finish is ignored (ForwardEnd).         *)
ConnectionError(s) ==
  /\ session[s] = "copying"
  /\ ~outDone[s] \/ (~inDone[s] /\ sent[s] < written[s])
  /\ Gone(s)
  /\ \E f \in {fin[s], TRUE} : FailWith(s, f)

(* A copy fails on the Unix socket: writing to a closed peer, or reading   *)
(* from one that closed without reading everything.                        *)
SocketError(s) ==
  /\ session[s] = "copying"
  /\ app[s] = "closed"
  /\ \/ ~outDone[s] /\ delivered[s] < sent[Other(s)]
     \/ ~inDone[s] /\ delivered[s] > 0
  /\ \E f \in {fin[s], TRUE} : FailWith(s, f)

-----------------------------------------------------------------------------
(* The client, buildkitd and the network (external).                       *)

AppWrite(s) ==
  /\ app[s] = "open"
  /\ written[s] < MaxChunks
  /\ written' = [written EXCEPT ![s] = written[s] + 1]
  /\ UNCHANGED <<session, app, sent, delivered, copying, lost>>

AppShutdownWrite(s) ==
  /\ app[s] = "open"
  /\ app' = [app EXCEPT ![s] = "shut"]
  /\ UNCHANGED <<session, written, sent, delivered, copying, lost>>

AppClose(s) ==
  /\ app[s] \in {"open", "shut"}
  /\ app' = [app EXCEPT ![s] = "closed"]
  /\ UNCHANGED <<session, written, sent, delivered, copying, lost>>

(* An application reads end of file only once the proxy task has dropped   *)
(* its Unix stream; it then closes too.                                    *)
AppSeesEnd(s) == Ended(s) /\ AppClose(s)

LoseConnection ==
  /\ ~lost
  /\ lost' = TRUE
  /\ UNCHANGED <<session, app, written, sent, delivered, copying>>

-----------------------------------------------------------------------------
SetUp ==
  \/ BridgeConnect \/ BridgeConnectFails
  \/ Admit \/ Refuse
  \/ AcceptBi \/ AcceptBiFails \/ DialBuildkitd \/ DialFails

CopyIn(s)  == Forward(s) \/ ForwardEnd(s)
CopyOut(s) == Deliver(s) \/ DeliverEnd(s)
Return(s)  == Complete(s) \/ ConnectionError(s) \/ SocketError(s)

Environment ==
  \/ \E s \in Side : AppWrite(s) \/ AppShutdownWrite(s) \/ AppClose(s)
  \/ LoseConnection

Next ==
  \/ SetUp
  \/ \E s \in Side : CopyIn(s) \/ CopyOut(s) \/ Return(s)
  \/ Environment

Spec == Init /\ [][Next]_vars

(* The runtime polls the tasks and the transport delivers or reports a     *)
(* loss.  An application that reads end of file closes.  Nothing else is   *)
(* expected of the applications.                                           *)
FairSpec ==
  /\ Spec
  /\ WF_vars(SetUp)
  /\ \A s \in Side :
       /\ WF_vars(CopyIn(s))
       /\ WF_vars(CopyOut(s))
       /\ WF_vars(Return(s))
       /\ WF_vars(AppSeesEnd(s))

-----------------------------------------------------------------------------
(* Properties.                                                             *)

(* The counters and flags of both proxies have their types; nothing is     *)
(* counted beyond what an application can write.                           *)
TypeOK ==
  /\ session \in [Side -> SessionState]
  /\ app \in [Side -> {"none", "open", "shut", "closed"}]
  /\ written \in [Side -> 0 .. MaxChunks]
  /\ sent \in [Side -> 0 .. MaxChunks]
  /\ delivered \in [Side -> 0 .. MaxChunks]
  /\ inDone \in [Side -> BOOLEAN]
  /\ outDone \in [Side -> BOOLEAN]
  /\ fin \in [Side -> BOOLEAN]
  /\ lost \in BOOLEAN

(* "proxy session completed" in both logs: every chunk either application  *)
(* wrote reached the other one's socket.                                   *)
CompletedMeansComplete ==
  session["local"] = "ok" /\ session["remote"] = "ok" =>
    \A s \in Side : delivered[Other(s)] = written[s]

(* A side that finishes its stream on end of file puts nothing after it,   *)
(* and a side that returns Ok has forwarded all its application wrote.     *)
OkForwardedAll ==
  \A s \in Side : session[s] = "ok" => sent[s] = written[s]

(* The one wait that no loss ends: the other direction is done, everything *)
(* the application wrote is forwarded, and it keeps its socket open.       *)
Stranded(s) ==
  /\ session[s] = "copying"
  /\ outDone[s] /\ ~inDone[s]
  /\ app[s] = "open" /\ sent[s] = written[s]

(* A loss, or one side returning for any reason, ends the other side.  A   *)
(* half session stays behind only where its direction out of the stream    *)
(* had already ended, and only while its application is silent: one word   *)
(* or the end of the application ends it.                                  *)
NoHalfSession ==
  \A s \in Side :
    (lost \/ Ended(Other(s))) ~>
      (Ended(s) \/ session[s] = "none" \/ []Stranded(s))

(* When both applications have hung up, the session ends on both sides. *)
HungUpEnds ==
  (app["local"] = "closed" /\ app["remote"] = "closed")
    ~> (Ended("local") /\ Ended("remote"))

(* What the applications see of a session (module BytePipe). *)
PipeEnd ==
  [s \in Side |-> IF session[s] = "none" THEN "absent"
                  ELSE IF Ended(s) THEN session[s] ELSE "open"]

PipeShut == [s \in Side |-> app[s] \in {"shut", "closed"}]

Abs == INSTANCE BytePipe WITH end <- PipeEnd, put <- written,
                              shut <- PipeShut, got <- delivered

(* ARCH.md, "a pure byte pipe": the two proxies implement the promise, for *)
(* every order of half-closes, losses and returns; a side whose own        *)
(* application writes no more also ends when the other one has.            *)
IsBytePipe == Abs!FairSpec

(* ARCH.md, "Both sides run tokio::io::copy_bidirectional", which passes   *)
(* an end of file on to the other socket: a client that hangs up ends its  *)
(* session, as buildkitd then reads end of file and closes too.            *)
HangUpEndsSession == app["local"] = "closed" ~> Ended("local")
=============================================================================
