-------------------------- MODULE ApplicationAgent --------------------------
(***************************************************************************)
(* ApplicationAgent with a MirroringApplication and no idle screen, as     *)
(* CastService sets them up, for one sender at a time.  A handler maps the *)
(* receiver's record, an end of VirtualConnections, to the one it leaves.  *)
(***************************************************************************)
EXTENDS VirtualConnections

IdleReceiver ==
    [socket |-> FALSE, connections |-> {}, pending |-> {}, out |-> <<>>,
     launched_app |-> 0,          \* its session, 0 when there is none
     sessions |-> 0,              \* that there have been
     port_socket |-> FALSE,       \* message_port_ has the sender's socket
     offer |-> FALSE]             \* the ReceiverSession has an offer to answer

ReceiverType(App, r) ==
    /\ {r.socket, r.port_socket, r.offer} \subseteq BOOLEAN
    /\ r.connections \subseteq Conns /\ r.pending = {} /\ r.out = <<>>
    /\ r.launched_app \in App /\ r.sessions \in App

TakeSocket(r) == [r EXCEPT !.socket = TRUE]

\* MirroringApplication::Stop(), and the message port without a socket.
StopApp(r) ==
    ResetClient([r EXCEPT !.launched_app = 0, !.port_socket = FALSE, !.offer = FALSE])

Status(r) == Message("STATUS", "platform", r.launched_app)

\* Mutant: nobody is told that the application has stopped.
GoIdleMutant(r) == IF r.launched_app = 0 THEN r ELSE StopApp(r)
\* SwitchToApplication("")
GoIdle(r) ==
    IF r.launched_app = 0 THEN r ELSE LET s == StopApp(r) IN Broadcast(s, Status(s))

\* SwitchToApplication() with the mirroring application.
Launch(r) ==
    IF r.launched_app # 0 THEN r
    ELSE LET s == [r EXCEPT !.launched_app = r.sessions + 1, !.sessions = @ + 1,
                            !.port_socket = TRUE]
         IN  Broadcast(s, Status(s))

\* An application that is not registered is an error; else the
\* answer is followed by another status.
HandleLaunch(r, ok) ==
    IF ok
    THEN LET s == Launch(r) IN Send(Send(s, Message("LAUNCH_STATUS", "platform", 0)), Status(s))
    ELSE Send(r, Message("LAUNCH_ERROR", "platform", 0))

HandleStop(r, app) ==
    IF r.launched_app = app THEN GoIdle(r)
    ELSE Send(r, Message("INVALID_REQUEST", "platform", 0))

IsConnectionAllowed(r, c, app) == c = "platform" \/ (r.launched_app # 0 /\ r.launched_app = app)

\* Mutant: the application keeps running when its sender has gone.
OnReceiverSocketErrorMutant(r) == LoseSocket(r)
\* OnClose() and OnError() of a socket.
OnReceiverSocketError(r) ==
    LET s == LoseSocket(r) IN IF r.port_socket THEN GoIdle(s) ELSE s

\* launch_ok is the outcome of a LAUNCH.
OnReceiverMessage(r, m, launch_ok) ==
    CASE m.type = "CONNECT" ->
            HandleConnect(r, m.conn, m.app, IsConnectionAllowed(r, m.conn, m.app))
      [] m.type = "CLOSE" -> RemoveConnection(r, m.conn)
      [] m.type = "LAUNCH" -> HandleLaunch(r, launch_ok)
      [] m.type = "STOP" -> HandleStop(r, m.app)
      [] m.type = "OFFER" -> [r EXCEPT !.offer = @ \/ (m.app = r.launched_app /\ r.port_socket)]
      [] m.type = "FIN" -> OnReceiverSocketError(r)

\* The ReceiverSession answers the offer, or refuses it.
AnswerOffer(r, type) ==
    PostMessage([r EXCEPT !.offer = FALSE], Message(type, "remote", r.launched_app))

\* MirroringApplication::OnPlaybackError()
OnPlaybackError(r) == GoIdle(r)
=============================================================================
